---- MODULE Spec2Model ----
(***************************************************************************)
(* Sampling and derived-metrics engine of the desktop system monitor:     *)
(* the per-PID CPU tracker (mem.cpp), the network counter cache           *)
(* (network.cpp), the CPU / thermal / fan samplers and their history      *)
(* buffers (system.cpp) and the window drivers that call them (main.cpp). *)
(*                                                                         *)
(* Floating point values are kept as exact fractions <<num, den>> in      *)
(* lowest terms.  Every comparison the code makes on them is against 0,   *)
(* 100 or another sample; float rounding is monotone and exact on 0 and   *)
(* 100, and no value in reach underflows, so the outcome of each          *)
(* comparison is that of the exact value.                                 *)
(***************************************************************************)
EXTENDS Integers, Sequences, FiniteSets

(* ---------------------------------------------------------------------- *)
(* Fractions                                                              *)
(* ---------------------------------------------------------------------- *)
Abs(x) == IF x < 0 THEN -x ELSE x

RECURSIVE GCD(_, _)
GCD(a, b) == IF b = 0 THEN a ELSE GCD(b, a % b)

\* n/d in lowest terms with a positive denominator (d # 0)
Frac(n, d) ==
    LET sn == IF d < 0 THEN -n ELSE n
        sd == Abs(d)
        g == GCD(Abs(sn), sd)
    IN  <<sn \div g, sd \div g>>

FZero == <<0, 1>>
FHundred == <<100, 1>>
FLeq(a, b) == a[1] * b[2] <= b[1] * a[2]
FLess(a, b) == a[1] * b[2] < b[1] * a[2]
FMin(a, b) == IF FLess(b, a) THEN b ELSE a
InPercentRange(a) == FLeq(FZero, a) /\ FLeq(a, FHundred)

\* finite maps (std::map) as functions over the set of present keys
EmptyMap == [k \in {} |-> 0]
MapPut(m, k, v) == [x \in (DOMAIN m) \cup {k} |-> IF x = k THEN v ELSE m[x]]

\* a mutex holds Free or the thread that locked it; the detached refresh
\* threads are 1..MaxRefresh
Free == 0
GuiThread == -1
ReaderThread == -2

(* ---------------------------------------------------------------------- *)
(* Bounds                                                                  *)
(* ---------------------------------------------------------------------- *)
ProcMaxNow == 9000      \* the process tracker is explored up to this time (ms)
NetMaxNow == 6500       \* the network window is explored up to this time (ms)
MaxRefresh == 2         \* detached refresh threads alive at the same time
SysMaxNow == 400        \* the system window is explored up to this time (ms)
LongRun == 152          \* sampler calls of the long scripted run
GuiMaxNow == 3000       \* the three windows together are explored up to this time (ms)

(* ---------------------------------------------------------------------- *)
(* Program constants                                                       *)
(* ---------------------------------------------------------------------- *)
ProcThrottleMs == 3000  \* updateProcessCPUData recomputes at most this often
NetRefreshMs == 2000    \* networkWindow spawns a refresh when more than this elapsed
HistoryCap == 100       \* points kept in every history buffer
SampleIntervalMs == 100 \* 1000.0f / fps, the three FPS sliders left at 10
CLK_TCK == 100          \* sysconf(_SC_CLK_TCK)

VARIABLES
    now,                    \* chrono::steady_clock, in ms
    \* ---- per-PID CPU tracker (mem.cpp)
    process_cpu_data,       \* map<int, ProcessCPUData>
    last_process_update,    \* time of the last recompute pass
    process_cpu_mutex,      \* Free or the thread that holds it
    u_pc,                   \* GUI thread inside updateProcessCPUData
    u_call,                 \* which of the frame's two calls is next (1, 2)
    u_now,                  \* local "now" of the running call
    current_processes,      \* local vector<Proc> of the running call
    u_i,                    \* loop position in current_processes
    r_pc,                   \* a second thread inside getProcessCPUUsage
    r_pid,                  \* its argument
    r_ret,                  \* its last return value
    published_cpu_data,     \* history: the cache as the last finished pass left it
    pass_times,             \* history: "now" of every recompute pass, oldest first
    \* ---- network counter cache (network.cpp) and networkWindow (main.cpp)
    current_rx_stats,       \* map<string, RX>
    current_tx_stats,       \* map<string, TX>
    current_networks,       \* Networks, as the list of interface names
    network_mutex,          \* Free, GuiThread or the refresh thread that holds it
    network_data_ready,     \* bool
    net_last_update,        \* static last_update of networkWindow; NoTime before the first frame
    t_pc,                   \* position of every refresh thread
    t_lines,                \* the lines of /proc/net/dev a thread has still to read
    t_file,                 \* the content of /proc/net/dev a thread opened
    t_networks,             \* local "networks" of getNetworkInterfaces
    g_pc,                   \* GUI thread inside networkWindow
    g_todo,                 \* renderers the selected tab still calls in this frame
    parsed_file,            \* history: the file content of the last finished parse
    \* ---- samplers and history buffers (system.cpp) and systemWindow (main.cpp)
    cpu_history,            \* vector<float>
    graph_paused,
    current_cpu_usage,      \* atomic<float>
    prev_stats,             \* static CPUStats of updateCPUHistory
    first_run,              \* static bool of updateCPUHistory
    thermal_history,        \* vector<float>
    thermal_paused,
    current_temperature,    \* atomic<float>
    thermal_available,      \* atomic<bool>
    fan_speed_history,      \* vector<int>
    fan_paused,
    current_fan_speed,      \* atomic<int>
    current_fan_level,      \* atomic<int>
    fan_active,             \* atomic<bool>
    fan_available,          \* atomic<bool>
    sys_last_update,        \* static last_update of systemWindow; NoTime before the first frame
    tab,                    \* the selected tab of "PerformanceMonitor"
    cpu_log,                \* history: every sample appended to cpu_history
    thermal_log,            \* history: every sample appended to thermal_history
    fan_log,                \* history: every sample appended to fan_speed_history
    cpu_reads,              \* history: calls of updateCPUHistory
    cpu_pause,              \* history: the last Pause click of the CPU graph
    thermal_reads,          \* history: calls of updateThermalHistory
    fan_reads,              \* history: calls of updateFanHistory
    cpu_mutex,              \* Free or the thread that holds it
    thermal_mutex,
    fan_mutex,
    s_pc,                   \* GUI thread inside systemWindow
    s_stats,                \* local curr_stats of the running updateCPUHistory
    plot_data,              \* local vector<float> of the running renderer
    \* ---- the process scan (mem.cpp)
    proc_fs,                \* the entries of /proc and the files below them
    scan_pc,                \* position of the thread inside getAllProcesses / getProcessInfo
    scan_caller,            \* the operation that was called: it decides who sees an exception
    dir_entries,            \* what readdir has still to return
    cur_proc,               \* local Proc "proc" of getProcessInfo
    processes,              \* local vector<Proc> of getAllProcesses
    scan_listing,           \* history: the entries the running scan was given by readdir
    scan_vanished           \* history: listed entries whose files were gone when read

procVars == <<process_cpu_data, last_process_update, process_cpu_mutex, u_pc,
              u_call, u_now, current_processes, u_i, r_pc, r_pid, r_ret,
              published_cpu_data, pass_times>>

netVars == <<current_rx_stats, current_tx_stats, current_networks, network_mutex,
             network_data_ready, net_last_update, t_pc, t_lines, t_file,
             t_networks, g_pc, g_todo, parsed_file>>

cpuVars == <<cpu_history, graph_paused, current_cpu_usage, prev_stats, first_run,
             cpu_log, cpu_reads, cpu_pause, cpu_mutex>>
thermalVars == <<thermal_history, thermal_paused, current_temperature,
                 thermal_available, thermal_log, thermal_reads, thermal_mutex>>
fanVars == <<fan_speed_history, fan_paused, current_fan_speed, current_fan_level,
             fan_active, fan_available, fan_log, fan_reads, fan_mutex>>
sysVars == <<cpuVars, thermalVars, fanVars, sys_last_update, tab, s_pc, s_stats,
             plot_data>>

scanVars == <<proc_fs, scan_pc, scan_caller, dir_entries, cur_proc, processes,
              scan_listing, scan_vanished>>

nonProcVars == <<netVars, sysVars, scanVars>>
nonNetVars == <<procVars, sysVars, scanVars>>

vars == <<now, procVars, netVars, sysVars, scanVars>>

(* ---------------------------------------------------------------------- *)
(* The clock                                                               *)
(* ---------------------------------------------------------------------- *)
\* a frame of systemWindow is shorter than a step of the clock
Tick(dt, max) ==
    /\ s_pc = "idle"
    /\ now + dt <= max
    /\ now' = now + dt

(* ====================================================================== *)
(* Per-PID CPU tracker                                                     *)
(* ====================================================================== *)
Pids == {1, 2}

\* <<utime, stime>> pairs a stat read can give; <<0, 0>> is also what
\* getProcessInfo leaves in the Proc when the stat file has vanished after
\* the comm file was read
TickReads == {<<0, 0>>, <<3, 2>>, <<400, 200>>}

MkProc(p, ut, st) == [pid |-> p, utime |-> ut, stime |-> st]

\* the results getAllProcesses can return: every listed PID at most once
RECURSIVE ScansOver(_)
ScansOver(ps) ==
    IF ps = {} THEN {<<>>}
    ELSE LET p == CHOOSE x \in ps : \A y \in ps : x <= y
             rest == ScansOver(ps \ {p})
         IN  rest \cup
             {<<MkProc(p, t[1], t[2])>> \o s : t \in TickReads, s \in rest}

Scans == ScansOver(Pids)

ScanPids(scan) == {scan[i].pid : i \in 1..Len(scan)}

\* cpu_percent of one existing entry: (cpu_diff / time_sec) / CLK_TCK * 100,
\* capped at 100 by min()
ProcessCpuPercent(cpu_diff, time_ms) ==
    FMin(Frac(cpu_diff * 1000 * 100, time_ms * CLK_TCK), FHundred)

\* UpdateEntry with the first observation already reporting a percent
\* (ticks since time 0) instead of the zero baseline
UpdateEntry_NoBaseline(data, proc, t) ==
    IF proc.pid \in DOMAIN data
    THEN LET e == data[proc.pid]
             cpu_diff == (proc.utime + proc.stime) - (e.prev_utime + e.prev_stime)
             time_diff == t - e.last_update
         IN  IF time_diff > 0
             THEN [data EXCEPT ![proc.pid] =
                      [prev_utime |-> proc.utime,
                       prev_stime |-> proc.stime,
                       cpu_percent |-> ProcessCpuPercent(cpu_diff, time_diff),
                       last_update |-> t]]
             ELSE data
    ELSE MapPut(data, proc.pid,
                [prev_utime |-> proc.utime,
                 prev_stime |-> proc.stime,
                 cpu_percent |-> IF t > 0
                                 THEN ProcessCpuPercent(proc.utime + proc.stime, t)
                                 ELSE FZero,
                 last_update |-> t])

\* the body of the for loop for one Proc
UpdateEntry(data, proc, t) ==
    IF proc.pid \in DOMAIN data
    THEN LET e == data[proc.pid]
             current_total == proc.utime + proc.stime
             prev_total == e.prev_utime + e.prev_stime
             cpu_diff == current_total - prev_total
             time_diff == t - e.last_update
         IN  IF time_diff > 0
             THEN [data EXCEPT ![proc.pid] =
                      [prev_utime |-> proc.utime,
                       prev_stime |-> proc.stime,
                       cpu_percent |-> ProcessCpuPercent(cpu_diff, time_diff),
                       last_update |-> t]]
             ELSE data
    ELSE MapPut(data, proc.pid,
                [prev_utime |-> proc.utime,
                 prev_stime |-> proc.stime,
                 cpu_percent |-> FZero,
                 last_update |-> t])

\* return from updateProcessCPUData to the driver, which calls it twice in
\* every frame (main.cpp:543, then renderProcessTable at mem.cpp:383)
UpdateReturn ==
    /\ u_pc' = "idle"
    /\ u_call' = IF u_call = 1 THEN 2 ELSE 1

\* updateProcessCPUData_Enter throttling at one second, as the comment at
\* mem.cpp:280 reads
updateProcessCPUData_Enter_1s ==
    /\ u_pc = "idle"
    /\ u_now' = now
    /\ IF now - last_process_update < 1000
       THEN UpdateReturn
       ELSE u_pc' = "scan" /\ UNCHANGED u_call
    /\ UNCHANGED <<now, nonProcVars, process_cpu_data, last_process_update, process_cpu_mutex,
                   current_processes, u_i, r_pc, r_pid, r_ret,
                   published_cpu_data, pass_times>>

\* entry: read the clock, return at once inside the throttle interval
updateProcessCPUData_Enter ==
    /\ u_pc = "idle"
    /\ u_now' = now
    /\ IF now - last_process_update < ProcThrottleMs
       THEN UpdateReturn
       ELSE u_pc' = "scan" /\ UNCHANGED u_call
    /\ UNCHANGED <<now, nonProcVars, process_cpu_data, last_process_update, process_cpu_mutex,
                   current_processes, u_i, r_pc, r_pid, r_ret,
                   published_cpu_data, pass_times>>

\* getAllProcesses(), outside the lock
updateProcessCPUData_Scan ==
    /\ u_pc = "scan"
    /\ \E scan \in Scans : current_processes' = scan
    /\ u_pc' = "lock"
    /\ UNCHANGED <<now, nonProcVars, process_cpu_data, last_process_update, process_cpu_mutex,
                   u_call, u_now, u_i, r_pc, r_pid, r_ret,
                   published_cpu_data, pass_times>>

\* updateProcessCPUData_Lock without the lock_guard: the loop runs unlocked
updateProcessCPUData_Lock_NoGuard ==
    /\ u_pc = "lock"
    /\ u_i' = 1
    /\ u_pc' = "loop"
    /\ UNCHANGED <<now, nonProcVars, process_cpu_data, last_process_update, process_cpu_mutex,
                   u_call, u_now, current_processes, r_pc, r_pid, r_ret,
                   published_cpu_data, pass_times>>

\* lock_guard<mutex> lock(process_cpu_mutex)
updateProcessCPUData_Lock ==
    /\ u_pc = "lock"
    /\ process_cpu_mutex = Free
    /\ process_cpu_mutex' = GuiThread
    /\ u_i' = 1
    /\ u_pc' = "loop"
    /\ UNCHANGED <<now, nonProcVars, process_cpu_data, last_process_update, u_call, u_now,
                   current_processes, r_pc, r_pid, r_ret,
                   published_cpu_data, pass_times>>

\* updateProcessCPUData_Entry reading the clock again for every entry
updateProcessCPUData_Entry_FreshClock ==
    /\ u_pc = "loop"
    /\ u_i <= Len(current_processes)
    /\ process_cpu_data' = UpdateEntry(process_cpu_data, current_processes[u_i], now)
    /\ u_i' = u_i + 1
    /\ UNCHANGED <<now, nonProcVars, last_process_update, process_cpu_mutex, u_pc, u_call,
                   u_now, current_processes, r_pc, r_pid, r_ret,
                   published_cpu_data, pass_times>>

\* one iteration of the for loop
updateProcessCPUData_Entry ==
    /\ u_pc = "loop"
    /\ u_i <= Len(current_processes)
    /\ process_cpu_data' = UpdateEntry(process_cpu_data, current_processes[u_i], u_now)
    /\ u_i' = u_i + 1
    /\ UNCHANGED <<now, nonProcVars, last_process_update, process_cpu_mutex, u_pc, u_call,
                   u_now, current_processes, r_pc, r_pid, r_ret,
                   published_cpu_data, pass_times>>

\* updateProcessCPUData_Finish that also evicts the entries of PIDs the scan
\* did not list
updateProcessCPUData_Finish_Evict ==
    /\ u_pc = "loop"
    /\ u_i > Len(current_processes)
    /\ last_process_update' = u_now
    /\ process_cpu_mutex' = Free
    /\ process_cpu_data' =
           [p \in (DOMAIN process_cpu_data) \cap ScanPids(current_processes)
               |-> process_cpu_data[p]]
    /\ published_cpu_data' = process_cpu_data'
    /\ pass_times' = Append(pass_times, u_now)
    /\ UpdateReturn
    /\ UNCHANGED <<now, nonProcVars, u_now, current_processes, u_i, r_pc, r_pid, r_ret>>

\* end of the loop: last_process_update = now, the lock_guard releases
updateProcessCPUData_Finish ==
    /\ u_pc = "loop"
    /\ u_i > Len(current_processes)
    /\ last_process_update' = u_now
    /\ process_cpu_mutex' = Free
    /\ published_cpu_data' = process_cpu_data
    /\ pass_times' = Append(pass_times, u_now)
    /\ UpdateReturn
    /\ UNCHANGED <<now, nonProcVars, process_cpu_data, u_now, current_processes, u_i,
                   r_pc, r_pid, r_ret>>

\* getProcessCPUUsage(pid) called from a second thread
getProcessCPUUsage_Enter ==
    /\ r_pc = "idle"
    /\ \E pid \in Pids : r_pid' = pid
    /\ r_pc' = "lock"
    /\ UNCHANGED <<now, nonProcVars, process_cpu_data, last_process_update, process_cpu_mutex,
                   u_pc, u_call, u_now, current_processes, u_i, r_ret,
                   published_cpu_data, pass_times>>

getProcessCPUUsage_Lock ==
    /\ r_pc = "lock"
    /\ process_cpu_mutex = Free
    /\ process_cpu_mutex' = ReaderThread
    /\ r_pc' = "find"
    /\ UNCHANGED <<now, nonProcVars, process_cpu_data, last_process_update, u_pc, u_call,
                   u_now, current_processes, u_i, r_pid, r_ret,
                   published_cpu_data, pass_times>>

\* the value getProcessCPUUsage returns for a cache
CPUUsageOf(data, pid) ==
    IF pid \in DOMAIN data THEN data[pid].cpu_percent ELSE FZero

getProcessCPUUsage_Return ==
    /\ r_pc = "find"
    /\ r_ret' = CPUUsageOf(process_cpu_data, r_pid)
    /\ process_cpu_mutex' = Free
    /\ r_pc' = "idle"
    /\ UNCHANGED <<now, nonProcVars, process_cpu_data, last_process_update, u_pc, u_call,
                   u_now, current_processes, u_i, r_pid,
                   published_cpu_data, pass_times>>

ProcTick ==
    /\ \E dt \in {1000, 3000} : Tick(dt, ProcMaxNow)
    /\ UNCHANGED <<procVars, nonProcVars>>

(* ====================================================================== *)
(* Network counter cache                                                   *)
(* ====================================================================== *)
NoTime == -1
\* what a thread has of /proc/net/dev: whether it opened, and its data lines
NoFile == [open |-> FALSE, lines |-> <<>>]
OpenFile(lines) == [open |-> TRUE, lines |-> lines]
\* a vector read or written while another thread assigns it
Torn == <<"(torn)">>
\* a token that is not an integer
NotANumber == <<-1, -1>>

RefreshThreads == 1..MaxRefresh

\* A counter of /proc/net/dev is a pair <<hi, lo>> standing for
\* hi * 2^16 + lo, so that values of 2^31 and above can be written.
Limb == 65536

\* long long -> int, the conversion of "rx_stats.bytes = values[0]":
\* the value modulo 2^32, read as a signed 32-bit integer
ToInt(v) ==
    LET h == v[1] % Limb
    IN  IF h >= Limb \div 2 THEN (h - Limb) * Limb + v[2] ELSE h * Limb + v[2]

\* counters 1..16 of a line, all starting from the same base value
Counters(base, n) == [i \in 1..n |-> <<base[1], base[2] + i>>]

\* A line of the device table after the two header lines: the text before
\* the ':' (colon = FALSE when the line has none) and the whitespace
\* separated tokens after it; a token is a counter or NotANumber.
DataLine(name, tokens) == [colon |-> TRUE, name |-> name, tokens |-> tokens]

\* the contents of /proc/net/dev the threads can find
NetFiles ==
    { OpenFile(<< DataLine("lo", Counters(<<0, 100>>, 16)),
                  DataLine("eth0", Counters(<<32768, 0>>, 16)) >>),
      OpenFile(<< DataLine("lo", Counters(<<0, 200>>, 17)),
                  DataLine("wlan0", Counters(<<0, 300>>, 15)) >>),
      OpenFile(<< DataLine("eth0", Counters(<<1, 7>>, 7) \o <<NotANumber>>
                                     \o Counters(<<1, 7>>, 8)),
                  [colon |-> FALSE, name |-> "", tokens |-> <<>>] >>) }

\* "while (iss >> value) values.push_back(value)": the leading counters
RECURSIVE ParseValues(_)
ParseValues(tokens) ==
    IF tokens = <<>> \/ Head(tokens) = NotANumber THEN <<>>
    ELSE <<Head(tokens)>> \o ParseValues(Tail(tokens))

\* ParseLine keeping only the lines of exactly 16 integers
ParseLine_Exactly16(maps, line) ==
    IF ~line.colon THEN maps
    ELSE LET values == ParseValues(line.tokens)
         IN  IF Len(values) = 16
             THEN << MapPut(maps[1], line.name, [i \in 1..8 |-> ToInt(values[i])]),
                     MapPut(maps[2], line.name, [i \in 1..8 |-> ToInt(values[i + 8])]) >>
             ELSE maps

\* the body of the while loop for one line, on the pair <<rx map, tx map>>
ParseLine(maps, line) ==
    IF ~line.colon THEN maps
    ELSE LET values == ParseValues(line.tokens)
         IN  IF Len(values) >= 16
             THEN << MapPut(maps[1], line.name, [i \in 1..8 |-> ToInt(values[i])]),
                     MapPut(maps[2], line.name, [i \in 1..8 |-> ToInt(values[i + 8])]) >>
             ELSE maps

\* the maps a whole parse pass over a file leaves
RECURSIVE ParseLines(_, _)
ParseLines(maps, lines) ==
    IF lines = <<>> THEN maps
    ELSE ParseLines(ParseLine(maps, Head(lines)), Tail(lines))

ParseFile(file) == ParseLines(<<EmptyMap, EmptyMap>>, file.lines)

\* the lists getifaddrs can report
IfaddrLists == {<<"lo">>, <<"lo", "eth0">>}

\* the renderers the selected tabs call in one frame (main.cpp:589-695)
RenderPlans ==
    { <<"renderRXTable">>, <<"renderTXTable">>,
      <<"renderRXUsageBars">>, <<"renderTXUsageBars">>,
      <<"renderRXUsageBars", "renderTXUsageBars">> }

NetUnchangedShared ==
    UNCHANGED <<current_rx_stats, current_tx_stats, current_networks,
                network_data_ready>>

(* ---- the detached refresh thread: parseNetworkDevFile(); getNetworkInterfaces() *)

\* parseNetworkDevFile_Lock without the lock_guard: the parse runs unlocked
parseNetworkDevFile_Lock_NoGuard(t) ==
    /\ t_pc[t] = "enter"
    /\ t_pc' = [t_pc EXCEPT ![t] = "open"]
    /\ NetUnchangedShared
    /\ UNCHANGED <<now, nonNetVars, network_mutex, net_last_update, t_lines,
                   t_file, t_networks, g_pc, g_todo, parsed_file>>

\* lock_guard<mutex> lock(network_mutex)
parseNetworkDevFile_Lock(t) ==
    /\ t_pc[t] = "enter"
    /\ network_mutex = Free
    /\ network_mutex' = t
    /\ t_pc' = [t_pc EXCEPT ![t] = "open"]
    /\ NetUnchangedShared
    /\ UNCHANGED <<now, nonNetVars, net_last_update, t_lines, t_file, t_networks,
                   g_pc, g_todo, parsed_file>>

\* parseNetworkDevFile_Open with the flag raised before the file is tested
parseNetworkDevFile_Open_ReadyFirst(t) ==
    /\ t_pc[t] = "open"
    /\ network_data_ready' = TRUE
    /\ \E f \in NetFiles \cup {NoFile} :
         IF ~f.open
         THEN /\ network_mutex' = Free
              /\ t_pc' = [t_pc EXCEPT ![t] = "ifaddrs"]
              /\ UNCHANGED <<t_lines, t_file>>
         ELSE /\ t_file' = [t_file EXCEPT ![t] = f]
              /\ t_lines' = [t_lines EXCEPT ![t] = f.lines]
              /\ t_pc' = [t_pc EXCEPT ![t] = "clear"]
              /\ UNCHANGED network_mutex
    /\ UNCHANGED <<current_rx_stats, current_tx_stats, current_networks>>
    /\ UNCHANGED <<now, nonNetVars, net_last_update, t_networks,
                   g_pc, g_todo, parsed_file>>

\* parseNetworkDevFile_Open returning from a failed open with the mutex held
parseNetworkDevFile_Open_KeepLock(t) ==
    /\ t_pc[t] = "open"
    /\ \E f \in NetFiles \cup {NoFile} :
         IF ~f.open
         THEN /\ t_pc' = [t_pc EXCEPT ![t] = "ifaddrs"]
              /\ UNCHANGED <<t_lines, t_file, network_mutex>>
         ELSE /\ t_file' = [t_file EXCEPT ![t] = f]
              /\ t_lines' = [t_lines EXCEPT ![t] = f.lines]
              /\ t_pc' = [t_pc EXCEPT ![t] = "clear"]
              /\ UNCHANGED network_mutex
    /\ NetUnchangedShared
    /\ UNCHANGED <<now, nonNetVars, net_last_update, t_networks,
                   g_pc, g_todo, parsed_file>>

\* ifstream file("/proc/net/dev"): return if it is not open, else skip the
\* two header lines
parseNetworkDevFile_Open(t) ==
    /\ t_pc[t] = "open"
    /\ \E f \in NetFiles \cup {NoFile} :
         IF ~f.open
         THEN /\ network_mutex' = Free
              /\ t_pc' = [t_pc EXCEPT ![t] = "ifaddrs"]
              /\ UNCHANGED <<t_lines, t_file>>
         ELSE /\ t_file' = [t_file EXCEPT ![t] = f]
              /\ t_lines' = [t_lines EXCEPT ![t] = f.lines]
              /\ t_pc' = [t_pc EXCEPT ![t] = "clear"]
              /\ UNCHANGED network_mutex
    /\ NetUnchangedShared
    /\ UNCHANGED <<now, nonNetVars, net_last_update, t_networks,
                   g_pc, g_todo, parsed_file>>

\* parseNetworkDevFile_Clear with the lock given up once the file is open,
\* so that the file is read outside the critical section
parseNetworkDevFile_Clear_Unlocked(t) ==
    /\ t_pc[t] = "clear"
    /\ current_rx_stats' = EmptyMap
    /\ current_tx_stats' = EmptyMap
    /\ network_mutex' = Free
    /\ t_pc' = [t_pc EXCEPT ![t] = "loop"]
    /\ UNCHANGED <<now, nonNetVars, current_networks,
                   network_data_ready, net_last_update, t_lines, t_file,
                   t_networks, g_pc, g_todo, parsed_file>>

\* current_rx_stats.clear(); current_tx_stats.clear()
parseNetworkDevFile_Clear(t) ==
    /\ t_pc[t] = "clear"
    /\ current_rx_stats' = EmptyMap
    /\ current_tx_stats' = EmptyMap
    /\ t_pc' = [t_pc EXCEPT ![t] = "loop"]
    /\ UNCHANGED <<now, nonNetVars, current_networks, network_mutex,
                   network_data_ready, net_last_update, t_lines, t_file,
                   t_networks, g_pc, g_todo, parsed_file>>

\* parseNetworkDevFile_Line storing the RX half of a line only
parseNetworkDevFile_Line_RxOnly(t) ==
    /\ t_pc[t] = "loop"
    /\ t_lines[t] # <<>>
    /\ LET maps == ParseLine(<<current_rx_stats, current_tx_stats>>, Head(t_lines[t]))
       IN  /\ current_rx_stats' = maps[1]
           /\ current_tx_stats' = current_tx_stats
    /\ t_lines' = [t_lines EXCEPT ![t] = Tail(t_lines[t])]
    /\ UNCHANGED <<now, nonNetVars, current_networks, network_mutex,
                   network_data_ready, net_last_update, t_pc, t_file,
                   t_networks, g_pc, g_todo, parsed_file>>

\* one iteration of "while (getline(file, line))"
parseNetworkDevFile_Line(t) ==
    /\ t_pc[t] = "loop"
    /\ t_lines[t] # <<>>
    /\ LET maps == ParseLine(<<current_rx_stats, current_tx_stats>>, Head(t_lines[t]))
       IN  /\ current_rx_stats' = maps[1]
           /\ current_tx_stats' = maps[2]
    /\ t_lines' = [t_lines EXCEPT ![t] = Tail(t_lines[t])]
    /\ UNCHANGED <<now, nonNetVars, current_networks, network_mutex,
                   network_data_ready, net_last_update, t_pc, t_file,
                   t_networks, g_pc, g_todo, parsed_file>>

\* end of file: network_data_ready = true, the lock_guard releases
parseNetworkDevFile_Finish(t) ==
    /\ t_pc[t] = "loop"
    /\ t_lines[t] = <<>>
    /\ network_data_ready' = TRUE
    /\ network_mutex' = Free
    /\ parsed_file' = t_file[t]
    /\ t_pc' = [t_pc EXCEPT ![t] = "ifaddrs"]
    /\ UNCHANGED <<now, nonNetVars, current_rx_stats, current_tx_stats,
                   current_networks, net_last_update, t_lines, t_file,
                   t_networks, g_pc, g_todo>>

\* getNetworkInterfaces up to freeifaddrs: return the empty list at once if
\* getifaddrs fails, else collect the IPv4 interfaces
getNetworkInterfaces_Collect(t) ==
    /\ t_pc[t] = "ifaddrs"
    /\ \E ok \in BOOLEAN :
         IF ok
         THEN /\ \E l \in IfaddrLists : t_networks' = [t_networks EXCEPT ![t] = l]
              /\ t_pc' = [t_pc EXCEPT ![t] = "assign"]
         ELSE /\ t_pc' = [t_pc EXCEPT ![t] = "none"]
              /\ UNCHANGED t_networks
    /\ NetUnchangedShared
    /\ UNCHANGED <<now, nonNetVars, network_mutex, net_last_update, t_lines,
                   t_file, g_pc, g_todo, parsed_file>>

\* "current_networks = networks" begins; the mutex is not taken
getNetworkInterfaces_AssignBegin(t) ==
    /\ t_pc[t] = "assign"
    /\ t_pc' = [t_pc EXCEPT ![t] = "assigning"]
    /\ NetUnchangedShared
    /\ UNCHANGED <<now, nonNetVars, network_mutex, net_last_update, t_lines,
                   t_file, t_networks, g_pc, g_todo, parsed_file>>

\* the assignment ends and the thread exits; if another thread assigns at
\* the same time the vector is left in any state
getNetworkInterfaces_AssignEnd(t) ==
    /\ t_pc[t] = "assigning"
    /\ \E v \in {t_networks[t]} \cup
                (IF \E o \in RefreshThreads \ {t} : t_pc[o] = "assigning"
                 THEN {Torn} ELSE {}) :
         current_networks' = v
    /\ t_pc' = [t_pc EXCEPT ![t] = "none"]
    /\ UNCHANGED <<now, nonNetVars, current_rx_stats, current_tx_stats,
                   network_mutex, network_data_ready, net_last_update, t_lines,
                   t_file, t_networks, g_pc, g_todo, parsed_file>>

(* ---- the GUI thread: networkWindow *)

\* networkWindow up to the detach: the static last_update is set at the
\* first call; a refresh thread is started when more than 2000 ms elapsed
networkWindow_Begin ==
    /\ g_pc = "idle"
    /\ LET last == IF net_last_update = NoTime THEN now ELSE net_last_update
       IN  IF now - last > NetRefreshMs
           THEN /\ \E t \in RefreshThreads :
                     /\ t_pc[t] = "none"
                     /\ t_pc' = [t_pc EXCEPT ![t] = "enter"]
                /\ net_last_update' = now
           ELSE /\ net_last_update' = last
                /\ UNCHANGED t_pc
    /\ g_pc' = "netif"
    /\ NetUnchangedShared
    /\ UNCHANGED <<now, nonNetVars, network_mutex, t_lines, t_file, t_networks,
                   g_todo, parsed_file>>

\* renderNetworkInterfaces: nothing is read while the header is collapsed
renderNetworkInterfaces_Header ==
    /\ g_pc = "netif"
    /\ \E open \in BOOLEAN : g_pc' = IF open THEN "netif_read" ELSE "tabs"
    /\ NetUnchangedShared
    /\ UNCHANGED <<now, nonNetVars, network_mutex, net_last_update, t_pc, t_lines,
                   t_file, t_networks, g_todo, parsed_file>>

\* the loop over current_networks.ip4s, made without the mutex, ends
renderNetworkInterfaces_Read ==
    /\ g_pc = "netif_read"
    /\ g_pc' = "tabs"
    /\ NetUnchangedShared
    /\ UNCHANGED <<now, nonNetVars, network_mutex, net_last_update, t_pc, t_lines,
                   t_file, t_networks, g_todo, parsed_file>>

\* the tab bars: the selected tabs decide which renderers this frame calls
networkWindow_Tabs ==
    /\ g_pc = "tabs"
    /\ \E plan \in RenderPlans : g_todo' = plan
    /\ g_pc' = "check"
    /\ NetUnchangedShared
    /\ UNCHANGED <<now, nonNetVars, network_mutex, net_last_update, t_pc, t_lines,
                   t_file, t_networks, parsed_file>>

\* the values the unlocked read of network_data_ready can give: the stored
\* one, or true while a thread is inside a parse that will set it
ReadyReads ==
    {network_data_ready} \cup
    (IF \E t \in RefreshThreads : t_pc[t] \in {"clear", "loop"} THEN {TRUE} ELSE {})

\* "if (!network_data_ready) return;" at the head of every renderer
renderer_Check ==
    /\ g_pc = "check"
    /\ g_todo # <<>>
    /\ \E ready \in ReadyReads :
         IF ready
         THEN g_pc' = "lock" /\ UNCHANGED g_todo
         ELSE g_pc' = "check" /\ g_todo' = Tail(g_todo)
    /\ NetUnchangedShared
    /\ UNCHANGED <<now, nonNetVars, network_mutex, net_last_update, t_pc, t_lines,
                   t_file, t_networks, parsed_file>>

\* lock_guard<mutex> lock(network_mutex) of the renderer
renderer_Lock ==
    /\ g_pc = "lock"
    /\ network_mutex = Free
    /\ network_mutex' = GuiThread
    /\ g_pc' = "draw"
    /\ NetUnchangedShared
    /\ UNCHANGED <<now, nonNetVars, net_last_update, t_pc, t_lines, t_file,
                   t_networks, g_todo, parsed_file>>

\* the loop over current_rx_stats or current_tx_stats ends, the lock_guard
\* releases
renderer_Draw ==
    /\ g_pc = "draw"
    /\ network_mutex' = Free
    /\ g_todo' = Tail(g_todo)
    /\ g_pc' = "check"
    /\ NetUnchangedShared
    /\ UNCHANGED <<now, nonNetVars, net_last_update, t_pc, t_lines, t_file,
                   t_networks, parsed_file>>

\* ImGui::End(): the frame is over
networkWindow_End ==
    /\ g_pc = "check"
    /\ g_todo = <<>>
    /\ g_pc' = "idle"
    /\ NetUnchangedShared
    /\ UNCHANGED <<now, nonNetVars, network_mutex, net_last_update, t_pc, t_lines,
                   t_file, t_networks, g_todo, parsed_file>>

NetTick ==
    /\ \E dt \in {2500} : Tick(dt, NetMaxNow)
    /\ UNCHANGED <<procVars, netVars, sysVars, scanVars>>

InitNet ==
    /\ current_rx_stats = EmptyMap
    /\ current_tx_stats = EmptyMap
    /\ current_networks = <<>>
    /\ network_mutex = Free
    /\ network_data_ready = FALSE
    /\ net_last_update = NoTime
    /\ t_pc = [t \in RefreshThreads |-> "none"]
    /\ t_lines = [t \in RefreshThreads |-> <<>>]
    /\ t_file = [t \in RefreshThreads |-> NoFile]
    /\ t_networks = [t \in RefreshThreads |-> <<>>]
    /\ g_pc = "idle"
    /\ g_todo = <<>>
    /\ parsed_file = NoFile

NextNet ==
    \/ \E t \in RefreshThreads : parseNetworkDevFile_Lock(t)
    \/ \E t \in RefreshThreads : parseNetworkDevFile_Open(t)
    \/ \E t \in RefreshThreads : parseNetworkDevFile_Clear(t)
    \/ \E t \in RefreshThreads : parseNetworkDevFile_Line(t)
    \/ \E t \in RefreshThreads : parseNetworkDevFile_Finish(t)
    \/ \E t \in RefreshThreads : getNetworkInterfaces_Collect(t)
    \/ \E t \in RefreshThreads : getNetworkInterfaces_AssignBegin(t)
    \/ \E t \in RefreshThreads : getNetworkInterfaces_AssignEnd(t)
    \/ networkWindow_Begin
    \/ renderNetworkInterfaces_Header
    \/ renderNetworkInterfaces_Read
    \/ networkWindow_Tabs
    \/ renderer_Check
    \/ renderer_Lock
    \/ renderer_Draw
    \/ networkWindow_End
    \/ NetTick

(* ====================================================================== *)
(* CPU, thermal and fan samplers, their history buffers, systemWindow      *)
(* ====================================================================== *)
Tabs == {"CPU", "Fan", "Thermal"}

MkStats(user, nice, system, idle, iowait, irq, softirq, steal, guest, guestNice) ==
    [user |-> user, nice |-> nice, system |-> system, idle |-> idle,
     iowait |-> iowait, irq |-> irq, softirq |-> softirq, steal |-> steal,
     guest |-> guest, guestNice |-> guestNice]

\* CPUStats stats = {0}: also what getCurrentCPUStats returns when /proc/stat
\* cannot be read or has no "cpu " line
ZeroStats == MkStats(0, 0, 0, 0, 0, 0, 0, 0, 0, 0)

\* the snapshots getCurrentCPUStats can return: an unreadable file, a
\* reading, one with user +50 and idle +50, one where iowait fell back, one
\* where user fell back
CpuSnapshots ==
    { ZeroStats,
      MkStats(100, 0, 50, 800, 50, 0, 0, 0, 10, 0),
      MkStats(150, 0, 50, 850, 50, 0, 0, 0, 10, 5),
      MkStats(190, 0, 50, 850, 20, 0, 0, 0, 30, 5),
      MkStats(140, 0, 50, 870, 50, 0, 0, 0, 10, 5) }

\* calculateCPUUsage without the two range checks
calculateCPUUsage_NoClamp(prev, curr) ==
    LET prevTotal == prev.user + prev.nice + prev.system + prev.idle +
                     prev.iowait + prev.irq + prev.softirq + prev.steal
        currTotal == curr.user + curr.nice + curr.system + curr.idle +
                     curr.iowait + curr.irq + curr.softirq + curr.steal
        totalDiff == currTotal - prevTotal
        idleDiff == (curr.idle + curr.iowait) - (prev.idle + prev.iowait)
    IN  IF totalDiff = 0 THEN FZero
        ELSE Frac((totalDiff - idleDiff) * 100, totalDiff)

\* calculateCPUUsage with guest and guestNice added into the total
calculateCPUUsage_WithGuest(prev, curr) ==
    LET prevTotal == prev.user + prev.nice + prev.system + prev.idle +
                     prev.iowait + prev.irq + prev.softirq + prev.steal +
                     prev.guest + prev.guestNice
        currTotal == curr.user + curr.nice + curr.system + curr.idle +
                     curr.iowait + curr.irq + curr.softirq + curr.steal +
                     curr.guest + curr.guestNice
        totalDiff == currTotal - prevTotal
        idleDiff == (curr.idle + curr.iowait) - (prev.idle + prev.iowait)
    IN  IF totalDiff = 0 THEN FZero
        ELSE LET usage == Frac((totalDiff - idleDiff) * 100, totalDiff)
             IN  IF FLess(usage, FZero) THEN FZero
                 ELSE IF FLess(FHundred, usage) THEN FHundred
                 ELSE usage

calculateCPUUsage(prev, curr) ==
    LET prevTotal == prev.user + prev.nice + prev.system + prev.idle +
                     prev.iowait + prev.irq + prev.softirq + prev.steal
        currTotal == curr.user + curr.nice + curr.system + curr.idle +
                     curr.iowait + curr.irq + curr.softirq + curr.steal
        prevIdle == prev.idle + prev.iowait
        currIdle == curr.idle + curr.iowait
        totalDiff == currTotal - prevTotal
        idleDiff == currIdle - prevIdle
    IN  IF totalDiff = 0 THEN FZero
        ELSE LET usage == Frac((totalDiff - idleDiff) * 100, totalDiff)
             IN  IF FLess(usage, FZero) THEN FZero
                 ELSE IF FLess(FHundred, usage) THEN FHundred
                 ELSE usage

\* PushHistory that drops the newest point instead of the oldest
PushHistory_DropNewest(h, x) ==
    LET a == Append(h, x)
    IN  IF Len(a) > HistoryCap THEN SubSeq(a, 1, Len(a) - 1) ELSE a

\* push_back, then erase(begin()) once the size exceeds 100
PushHistory(h, x) ==
    LET a == Append(h, x)
    IN  IF Len(a) > HistoryCap THEN Tail(a) ELSE a

\* A sensor file as the readers see it: whether it opens, whether getline
\* gives a line, whether stol/stoi converts the line, and the number.
AbsentFile == [open |-> FALSE, line |-> FALSE, numeric |-> FALSE, value |-> 0]
EmptyFile == [open |-> TRUE, line |-> FALSE, numeric |-> FALSE, value |-> 0]
GarbageFile == [open |-> TRUE, line |-> TRUE, numeric |-> FALSE, value |-> 0]
NumberFile(v) == [open |-> TRUE, line |-> TRUE, numeric |-> TRUE, value |-> v]

\* a file gives a number: it opens, has a line, and the conversion does
\* not throw
Readable(f) == f.open /\ f.line /\ f.numeric

\* the results of getThermalInfo: no candidate path readable, or the first
\* readable one in millidegrees / 1000.0f
ThermalUnavailable == [available |-> FALSE, temperature |-> FZero]
ThermalReading(raw) == [available |-> TRUE, temperature |-> Frac(raw, 1000)]

\* getThermalInfo over the contents of its candidate paths, in order
RECURSIVE getThermalInfo(_)
getThermalInfo(thermal_paths) ==
    IF thermal_paths = <<>> THEN ThermalUnavailable
    ELSE IF Readable(Head(thermal_paths))
         THEN ThermalReading(Head(thermal_paths).value)
         ELSE getThermalInfo(Tail(thermal_paths))

\* the contents of the five candidate paths a poll can find: none, an empty
\* zone0 only, garbage in zone1 before a reading in hwmon0, a reading in
\* zone0, a reading of zero
ThermalFiles ==
    { <<AbsentFile, AbsentFile, AbsentFile, AbsentFile, AbsentFile>>,
      <<EmptyFile, AbsentFile, AbsentFile, AbsentFile, AbsentFile>>,
      <<AbsentFile, GarbageFile, NumberFile(45000), AbsentFile, NumberFile(60000)>>,
      <<NumberFile(71500), NumberFile(45000), AbsentFile, AbsentFile, AbsentFile>>,
      <<NumberFile(0), AbsentFile, AbsentFile, AbsentFile, AbsentFile>> }

ThermalReads == {getThermalInfo(f) : f \in ThermalFiles}

\* the results of getFanInfo: no fanN_input readable, or the first readable one
FanUnavailable == [available |-> FALSE, speed |-> 0, level |-> 0, active |-> FALSE]
FanReading(speed, level, active) ==
    [available |-> TRUE, speed |-> speed, level |-> level, active |-> active]

\* fanN_input, fanN_enable and pwmN of one fan number of one hwmon entry
FanSlot(input, enable, pwm) == [input |-> input, enable |-> enable, pwm |-> pwm]
NoFan == FanSlot(AbsentFile, AbsentFile, AbsentFile)

\* an entry of /sys/class/hwmon/ with its fan numbers 1..4
HwmonEntry(is_directory, fans) == [is_directory |-> is_directory, fans |-> fans]

\* the fan slots in the order the two loops visit them
RECURSIVE FanSlots(_)
FanSlots(entries) ==
    IF entries = <<>> THEN <<>>
    ELSE (IF Head(entries).is_directory THEN Head(entries).fans ELSE <<>>)
         \o FanSlots(Tail(entries))

\* the two loops of getFanInfo on the FanInfo built so far: a conversion
\* that throws leaves what was already stored and goes on to the next fan
RECURSIVE ScanFans(_, _)
ScanFans(info, slots) ==
    IF slots = <<>> THEN info
    ELSE LET slot == Head(slots)
             rest == Tail(slots)
         IN  IF ~(slot.input.open /\ slot.input.line) THEN ScanFans(info, rest)
             ELSE IF ~slot.input.numeric THEN ScanFans(info, rest)
             ELSE LET i1 == [info EXCEPT !.speed = slot.input.value,
                                         !.available = TRUE]
                  IN  IF slot.enable.open /\ slot.enable.line /\ ~slot.enable.numeric
                      THEN ScanFans(i1, rest)
                      ELSE LET i2 == IF ~slot.enable.open
                                     THEN [i1 EXCEPT !.active = (i1.speed > 0)]
                                     ELSE IF slot.enable.line
                                     THEN [i1 EXCEPT !.active = (slot.enable.value = 1)]
                                     ELSE i1
                           IN  IF slot.pwm.open /\ slot.pwm.line
                               THEN IF slot.pwm.numeric
                                    THEN [i2 EXCEPT !.level = slot.pwm.value]
                                    ELSE ScanFans(i2, rest)
                               ELSE i2

\* getFanInfo over /sys/class/hwmon/: the directory iterator throws when
\* the directory is missing
getFanInfo(hwmon) ==
    IF ~hwmon.exists THEN FanUnavailable
    ELSE ScanFans(FanUnavailable, FanSlots(hwmon.entries))

\* what a poll can find under /sys/class/hwmon/: no directory, an entry
\* without fans, a fan after an unreadable one, a stopped fan, a fan whose
\* enable file does not convert before a second fan
FanSystems ==
    { [exists |-> FALSE, entries |-> <<>>],
      [exists |-> TRUE,
       entries |-> << HwmonEntry(FALSE, <<NoFan, NoFan, NoFan, NoFan>>),
                      HwmonEntry(TRUE, <<NoFan, NoFan, NoFan, NoFan>>) >>],
      [exists |-> TRUE,
       entries |-> << HwmonEntry(TRUE,
                         << FanSlot(GarbageFile, AbsentFile, AbsentFile),
                            FanSlot(NumberFile(2400), AbsentFile, NumberFile(128)),
                            NoFan, NoFan >>) >>],
      [exists |-> TRUE,
       entries |-> << HwmonEntry(TRUE,
                         << FanSlot(NumberFile(0), AbsentFile, AbsentFile),
                            NoFan, NoFan, NoFan >>) >>],
      [exists |-> TRUE,
       entries |-> << HwmonEntry(TRUE,
                         << FanSlot(NumberFile(1200), GarbageFile, NumberFile(90)),
                            FanSlot(NumberFile(3000), AbsentFile, NumberFile(200)),
                            NoFan, NoFan >>) >>] }

FanReads == {getFanInfo(h) : h \in FanSystems}

\* updateCPUHistory() up to its lock_guard, or to its end when nothing is
\* to be appended
updateCPUHistory(curr_stats) ==
    /\ cpu_reads' = cpu_reads + 1
    /\ s_stats' = curr_stats
    /\ IF ~first_run
       THEN /\ current_cpu_usage' = calculateCPUUsage(prev_stats, curr_stats)
            /\ UNCHANGED first_run
            /\ IF ~graph_paused
               THEN /\ cpu_mutex = Free
                    /\ cpu_mutex' = GuiThread
                    /\ s_pc' = "push"
                    /\ UNCHANGED prev_stats
               ELSE /\ prev_stats' = curr_stats
                    /\ s_pc' = "render"
                    /\ UNCHANGED cpu_mutex
       ELSE /\ first_run' = FALSE
            /\ prev_stats' = curr_stats
            /\ s_pc' = "render"
            /\ UNCHANGED <<current_cpu_usage, cpu_mutex>>
    /\ UNCHANGED <<cpu_history, cpu_log, cpu_pause>>

\* the call of updateCPUHistory reaches its lock_guard
CpuPushes == ~first_run /\ ~graph_paused

\* updateThermalHistory() up to its lock_guard, or to its end
updateThermalHistory(thermal_info) ==
    /\ thermal_reads' = thermal_reads + 1
    /\ thermal_available' = thermal_info.available
    /\ IF thermal_info.available
       THEN /\ current_temperature' = thermal_info.temperature
            /\ IF ~thermal_paused
               THEN /\ thermal_mutex = Free
                    /\ thermal_mutex' = GuiThread
                    /\ s_pc' = "push"
               ELSE /\ s_pc' = "render"
                    /\ UNCHANGED thermal_mutex
       ELSE /\ s_pc' = "render"
            /\ UNCHANGED <<current_temperature, thermal_mutex>>
    /\ UNCHANGED <<thermal_history, thermal_log>>

ThermalPushes(thermal_info) == thermal_info.available /\ ~thermal_paused

\* updateFanHistory() up to its lock_guard, or to its end
updateFanHistory(fan_info) ==
    /\ fan_reads' = fan_reads + 1
    /\ fan_available' = fan_info.available
    /\ IF fan_info.available
       THEN /\ current_fan_speed' = fan_info.speed
            /\ current_fan_level' = fan_info.level
            /\ fan_active' = fan_info.active
            /\ IF ~fan_paused
               THEN /\ fan_mutex = Free
                    /\ fan_mutex' = GuiThread
                    /\ s_pc' = "push"
               ELSE /\ s_pc' = "render"
                    /\ UNCHANGED fan_mutex
       ELSE /\ s_pc' = "render"
            /\ UNCHANGED <<current_fan_speed, current_fan_level, fan_active, fan_mutex>>
    /\ UNCHANGED <<fan_speed_history, fan_log>>

FanPushes(fan_info) == fan_info.available /\ ~fan_paused

\* "static auto last_update = now": set when the tab bar is first reached
SysLastUpdate == IF sys_last_update = NoTime THEN now ELSE sys_last_update

\* elapsed.count() >= (1000.0f / fps)
SampleDue == now - SysLastUpdate >= SampleIntervalMs

\* What is remembered of the last Pause click: the baseline snapshot it
\* found and whether a call had taken one; "resumed" from the Resume click
\* to the first sample appended after it, "sampled" from then on.
NoPause == [state |-> "none", stats |-> ZeroStats, had |-> FALSE]
AfterClick ==
    IF graph_paused
    THEN [cpu_pause EXCEPT !.state = "resumed"]
    ELSE [state |-> "paused", stats |-> prev_stats, had |-> ~first_run]
AfterSample(pause) ==
    IF pause.state = "resumed" THEN [pause EXCEPT !.state = "sampled"] ELSE pause

\* systemWindow_CPU calling the sampler whenever it is due, paused or not
systemWindow_CPU_IgnorePause(curr_stats) ==
    /\ tab = "CPU"
    /\ s_pc = "idle"
    /\ IF SampleDue
       THEN /\ updateCPUHistory(curr_stats)
            /\ sys_last_update' = IF CpuPushes THEN SysLastUpdate ELSE now
       ELSE /\ sys_last_update' = SysLastUpdate
            /\ s_pc' = "render"
            /\ UNCHANGED <<cpu_history, current_cpu_usage, prev_stats, first_run,
                           cpu_log, cpu_reads, cpu_pause, cpu_mutex, s_stats>>
    /\ UNCHANGED <<now, scanVars, procVars, netVars, thermalVars, fanVars, tab, graph_paused,
                   plot_data>>

\* A frame of systemWindow with the CPU tab selected begins: the sampler is
\* called when it is due and not paused, and "last_update = now" follows
\* its return; then renderCPUGraph is entered.
systemWindow_CPU(curr_stats) ==
    /\ tab = "CPU"
    /\ s_pc = "idle"
    /\ IF ~graph_paused /\ SampleDue
       THEN /\ updateCPUHistory(curr_stats)
            /\ sys_last_update' = IF CpuPushes THEN SysLastUpdate ELSE now
       ELSE /\ sys_last_update' = SysLastUpdate
            /\ s_pc' = "render"
            /\ UNCHANGED <<cpu_history, current_cpu_usage, prev_stats, first_run,
                           cpu_log, cpu_reads, cpu_pause, cpu_mutex, s_stats>>
    /\ UNCHANGED <<now, scanVars, procVars, netVars, thermalVars, fanVars, tab, graph_paused,
                   plot_data>>

\* updateCPUHistory_Push without "prev_stats = curr_stats"
updateCPUHistory_Push_KeepBaseline ==
    /\ tab = "CPU"
    /\ s_pc = "push"
    /\ cpu_history' = PushHistory(cpu_history, current_cpu_usage)
    /\ cpu_log' = Append(cpu_log, current_cpu_usage)
    /\ cpu_pause' = AfterSample(cpu_pause)
    /\ cpu_mutex' = Free
    /\ sys_last_update' = now
    /\ s_pc' = "render"
    /\ UNCHANGED <<now, scanVars, procVars, netVars, thermalVars, fanVars, tab, graph_paused,
                   current_cpu_usage, first_run, cpu_reads, s_stats, plot_data,
                   prev_stats>>

\* the guarded block of updateCPUHistory: push_back, erase, the lock_guard
\* releases; then "prev_stats = curr_stats" and, back in systemWindow,
\* "last_update = now"
updateCPUHistory_Push ==
    /\ tab = "CPU"
    /\ s_pc = "push"
    /\ cpu_history' = PushHistory(cpu_history, current_cpu_usage)
    /\ cpu_log' = Append(cpu_log, current_cpu_usage)
    /\ cpu_pause' = AfterSample(cpu_pause)
    /\ cpu_mutex' = Free
    /\ prev_stats' = s_stats
    /\ sys_last_update' = now
    /\ s_pc' = "render"
    /\ UNCHANGED <<now, scanVars, procVars, netVars, thermalVars, fanVars, tab, graph_paused,
                   current_cpu_usage, first_run, cpu_reads, s_stats, plot_data>>

\* renderCPUGraph_Begin where Resume makes the sampler start over with a
\* fresh baseline
renderCPUGraph_Begin_ResumeRebaselines(click) ==
    /\ tab = "CPU"
    /\ s_pc = "render"
    /\ graph_paused' = IF click THEN ~graph_paused ELSE graph_paused
    /\ cpu_pause' = IF click THEN AfterClick ELSE cpu_pause
    /\ first_run' = IF click /\ graph_paused THEN TRUE ELSE first_run
    /\ IF cpu_history # <<>>
       THEN /\ cpu_mutex = Free
            /\ cpu_mutex' = GuiThread
            /\ s_pc' = "copy"
       ELSE /\ s_pc' = "idle"
            /\ UNCHANGED cpu_mutex
    /\ UNCHANGED <<now, scanVars, procVars, netVars, thermalVars, fanVars, tab, sys_last_update,
                   cpu_history, current_cpu_usage, prev_stats, cpu_log,
                   cpu_reads, s_stats, plot_data>>

\* renderCPUGraph up to its lock_guard: the Pause/Resume button, then the
\* unlocked test of cpu_history.empty()
renderCPUGraph_Begin(click) ==
    /\ tab = "CPU"
    /\ s_pc = "render"
    /\ graph_paused' = IF click THEN ~graph_paused ELSE graph_paused
    /\ cpu_pause' = IF click THEN AfterClick ELSE cpu_pause
    /\ IF cpu_history # <<>>
       THEN /\ cpu_mutex = Free
            /\ cpu_mutex' = GuiThread
            /\ s_pc' = "copy"
       ELSE /\ s_pc' = "idle"
            /\ UNCHANGED cpu_mutex
    /\ UNCHANGED <<now, scanVars, procVars, netVars, thermalVars, fanVars, tab, sys_last_update,
                   cpu_history, current_cpu_usage, prev_stats, first_run, cpu_log,
                   cpu_reads, s_stats, plot_data>>

\* "vector<float> plot_data = cpu_history; cpu_mutex.unlock();"
renderCPUGraph_Copy ==
    /\ tab = "CPU"
    /\ s_pc = "copy"
    /\ plot_data' = cpu_history
    /\ cpu_mutex' = Free
    /\ s_pc' = "plot"
    /\ UNCHANGED <<now, scanVars, procVars, netVars, thermalVars, fanVars, tab, sys_last_update,
                   cpu_history, graph_paused, current_cpu_usage, prev_stats,
                   first_run, cpu_log, cpu_reads, cpu_pause, s_stats>>

\* PlotLines and the overlay are drawn, then "cpu_mutex.lock();"
renderCPUGraph_Plot ==
    /\ tab = "CPU"
    /\ s_pc = "plot"
    /\ cpu_mutex = Free
    /\ cpu_mutex' = GuiThread
    /\ s_pc' = "relocked"
    /\ UNCHANGED <<now, scanVars, procVars, netVars, thermalVars, fanVars, tab, sys_last_update,
                   cpu_history, graph_paused, current_cpu_usage, prev_stats,
                   first_run, cpu_log, cpu_reads, cpu_pause, s_stats, plot_data>>

\* renderCPUGraph_End returning with the re-acquired mutex still held
renderCPUGraph_End_KeepLock ==
    /\ tab = "CPU"
    /\ s_pc = "relocked"
    /\ plot_data' = <<>>
    /\ s_pc' = "idle"
    /\ UNCHANGED <<now, scanVars, procVars, netVars, thermalVars, fanVars, tab, sys_last_update,
                   cpu_history, graph_paused, current_cpu_usage, prev_stats,
                   first_run, cpu_log, cpu_reads, cpu_pause, s_stats, cpu_mutex>>

\* the block ends: the lock_guard releases, the statistics text is drawn
renderCPUGraph_End ==
    /\ tab = "CPU"
    /\ s_pc = "relocked"
    /\ cpu_mutex' = Free
    /\ plot_data' = <<>>
    /\ s_pc' = "idle"
    /\ UNCHANGED <<now, scanVars, procVars, netVars, thermalVars, fanVars, tab, sys_last_update,
                   cpu_history, graph_paused, current_cpu_usage, prev_stats,
                   first_run, cpu_log, cpu_reads, cpu_pause, s_stats>>

\* a frame with the Thermal tab selected begins
systemWindow_Thermal(thermal_info) ==
    /\ tab = "Thermal"
    /\ s_pc = "idle"
    /\ IF ~thermal_paused /\ SampleDue
       THEN /\ updateThermalHistory(thermal_info)
            /\ sys_last_update' = IF ThermalPushes(thermal_info)
                                  THEN SysLastUpdate ELSE now
       ELSE /\ sys_last_update' = SysLastUpdate
            /\ s_pc' = "render"
            /\ UNCHANGED <<thermal_history, current_temperature, thermal_available,
                           thermal_log, thermal_reads, thermal_mutex>>
    /\ UNCHANGED <<now, scanVars, procVars, netVars, cpuVars, fanVars, tab, thermal_paused,
                   s_stats, plot_data>>

\* the guarded block of updateThermalHistory; the value pushed is the one
\* the call has just stored in current_temperature
updateThermalHistory_Push ==
    /\ tab = "Thermal"
    /\ s_pc = "push"
    /\ thermal_history' = PushHistory(thermal_history, current_temperature)
    /\ thermal_log' = Append(thermal_log, current_temperature)
    /\ thermal_mutex' = Free
    /\ sys_last_update' = now
    /\ s_pc' = "render"
    /\ UNCHANGED <<now, scanVars, procVars, netVars, cpuVars, fanVars, tab, thermal_paused,
                   current_temperature, thermal_available, thermal_reads,
                   s_stats, plot_data>>

\* renderThermalGraph_Begin drawing the button whether or not a sensor is
\* reported
renderThermalGraph_Begin_AlwaysButton(click) ==
    /\ tab = "Thermal"
    /\ s_pc = "render"
    /\ thermal_paused' = IF click THEN ~thermal_paused ELSE thermal_paused
    /\ IF thermal_history # <<>>
       THEN /\ thermal_mutex = Free
            /\ thermal_mutex' = GuiThread
            /\ s_pc' = "copy"
       ELSE /\ s_pc' = "idle"
            /\ UNCHANGED thermal_mutex
    /\ UNCHANGED <<now, scanVars, procVars, netVars, cpuVars, fanVars, tab, sys_last_update,
                   thermal_history, current_temperature, thermal_available,
                   thermal_log, thermal_reads, s_stats, plot_data>>

\* renderThermalGraph up to its lock_guard: it returns before the button
\* while no sensor is reported
renderThermalGraph_Begin(click) ==
    /\ tab = "Thermal"
    /\ s_pc = "render"
    /\ IF ~thermal_available
       THEN /\ s_pc' = "idle"
            /\ UNCHANGED <<thermal_paused, thermal_mutex>>
       ELSE /\ thermal_paused' = IF click THEN ~thermal_paused ELSE thermal_paused
            /\ IF thermal_history # <<>>
               THEN /\ thermal_mutex = Free
                    /\ thermal_mutex' = GuiThread
                    /\ s_pc' = "copy"
               ELSE /\ s_pc' = "idle"
                    /\ UNCHANGED thermal_mutex
    /\ UNCHANGED <<now, scanVars, procVars, netVars, cpuVars, fanVars, tab, sys_last_update,
                   thermal_history, current_temperature, thermal_available,
                   thermal_log, thermal_reads, s_stats, plot_data>>

\* "vector<float> plot_data = thermal_history; thermal_mutex.unlock();"
renderThermalGraph_Copy ==
    /\ tab = "Thermal"
    /\ s_pc = "copy"
    /\ plot_data' = thermal_history
    /\ thermal_mutex' = Free
    /\ s_pc' = "plot"
    /\ UNCHANGED <<now, scanVars, procVars, netVars, cpuVars, fanVars, tab, sys_last_update,
                   thermal_history, thermal_paused, current_temperature,
                   thermal_available, thermal_log, thermal_reads, s_stats>>

\* PlotLines and the overlay are drawn, then "thermal_mutex.lock();"
renderThermalGraph_Plot ==
    /\ tab = "Thermal"
    /\ s_pc = "plot"
    /\ thermal_mutex = Free
    /\ thermal_mutex' = GuiThread
    /\ s_pc' = "relocked"
    /\ UNCHANGED <<now, scanVars, procVars, netVars, cpuVars, fanVars, tab, sys_last_update,
                   thermal_history, thermal_paused, current_temperature,
                   thermal_available, thermal_log, thermal_reads, s_stats, plot_data>>

\* the block ends: the lock_guard releases
renderThermalGraph_End ==
    /\ tab = "Thermal"
    /\ s_pc = "relocked"
    /\ thermal_mutex' = Free
    /\ plot_data' = <<>>
    /\ s_pc' = "idle"
    /\ UNCHANGED <<now, scanVars, procVars, netVars, cpuVars, fanVars, tab, sys_last_update,
                   thermal_history, thermal_paused, current_temperature,
                   thermal_available, thermal_log, thermal_reads, s_stats>>

\* a frame with the Fan tab selected begins
systemWindow_Fan(fan_info) ==
    /\ tab = "Fan"
    /\ s_pc = "idle"
    /\ IF ~fan_paused /\ SampleDue
       THEN /\ updateFanHistory(fan_info)
            /\ sys_last_update' = IF FanPushes(fan_info) THEN SysLastUpdate ELSE now
       ELSE /\ sys_last_update' = SysLastUpdate
            /\ s_pc' = "render"
            /\ UNCHANGED <<fan_speed_history, current_fan_speed, current_fan_level,
                           fan_active, fan_available, fan_log, fan_reads, fan_mutex>>
    /\ UNCHANGED <<now, scanVars, procVars, netVars, cpuVars, thermalVars, tab, fan_paused,
                   s_stats, plot_data>>

\* the guarded block of updateFanHistory; the value pushed is the one the
\* call has just stored in current_fan_speed
updateFanHistory_Push ==
    /\ tab = "Fan"
    /\ s_pc = "push"
    /\ fan_speed_history' = PushHistory(fan_speed_history, current_fan_speed)
    /\ fan_log' = Append(fan_log, current_fan_speed)
    /\ fan_mutex' = Free
    /\ sys_last_update' = now
    /\ s_pc' = "render"
    /\ UNCHANGED <<now, scanVars, procVars, netVars, cpuVars, thermalVars, tab, fan_paused,
                   current_fan_speed, current_fan_level, fan_active, fan_available,
                   fan_reads, s_stats, plot_data>>

\* renderFanGraph up to its lock_guard: it returns before the button while
\* no fan is reported
renderFanGraph_Begin(click) ==
    /\ tab = "Fan"
    /\ s_pc = "render"
    /\ IF ~fan_available
       THEN /\ s_pc' = "idle"
            /\ UNCHANGED <<fan_paused, fan_mutex>>
       ELSE /\ fan_paused' = IF click THEN ~fan_paused ELSE fan_paused
            /\ IF fan_speed_history # <<>>
               THEN /\ fan_mutex = Free
                    /\ fan_mutex' = GuiThread
                    /\ s_pc' = "copy"
               ELSE /\ s_pc' = "idle"
                    /\ UNCHANGED fan_mutex
    /\ UNCHANGED <<now, scanVars, procVars, netVars, cpuVars, thermalVars, tab, sys_last_update,
                   fan_speed_history, current_fan_speed, current_fan_level,
                   fan_active, fan_available, fan_log, fan_reads, s_stats, plot_data>>

\* the loop "plot_data.push_back(static_cast<float>(speed))", then
\* "fan_mutex.unlock();"
renderFanGraph_Copy ==
    /\ tab = "Fan"
    /\ s_pc = "copy"
    /\ plot_data' = [i \in 1..Len(fan_speed_history) |-> Frac(fan_speed_history[i], 1)]
    /\ fan_mutex' = Free
    /\ s_pc' = "plot"
    /\ UNCHANGED <<now, scanVars, procVars, netVars, cpuVars, thermalVars, tab, sys_last_update,
                   fan_speed_history, fan_paused, current_fan_speed,
                   current_fan_level, fan_active, fan_available, fan_log,
                   fan_reads, s_stats>>

\* PlotLines and the overlay are drawn, then "fan_mutex.lock();"
renderFanGraph_Plot ==
    /\ tab = "Fan"
    /\ s_pc = "plot"
    /\ fan_mutex = Free
    /\ fan_mutex' = GuiThread
    /\ s_pc' = "relocked"
    /\ UNCHANGED <<now, scanVars, procVars, netVars, cpuVars, thermalVars, tab, sys_last_update,
                   fan_speed_history, fan_paused, current_fan_speed,
                   current_fan_level, fan_active, fan_available, fan_log,
                   fan_reads, s_stats, plot_data>>

\* the block ends: the lock_guard releases
renderFanGraph_End ==
    /\ tab = "Fan"
    /\ s_pc = "relocked"
    /\ fan_mutex' = Free
    /\ plot_data' = <<>>
    /\ s_pc' = "idle"
    /\ UNCHANGED <<now, scanVars, procVars, netVars, cpuVars, thermalVars, tab, sys_last_update,
                   fan_speed_history, fan_paused, current_fan_speed,
                   current_fan_level, fan_active, fan_available, fan_log,
                   fan_reads, s_stats>>

\* the user selects another tab; the next frame draws it
systemWindow_SelectTab(t) ==
    /\ s_pc = "idle"
    /\ tab # t
    /\ tab' = t
    /\ UNCHANGED <<now, scanVars, procVars, netVars, cpuVars, thermalVars, fanVars,
                   sys_last_update, s_pc, s_stats, plot_data>>

\* the steps of a frame after its first
SysFrameSteps ==
    \/ updateCPUHistory_Push
    \/ renderCPUGraph_Copy
    \/ renderCPUGraph_Plot
    \/ renderCPUGraph_End
    \/ updateThermalHistory_Push
    \/ renderThermalGraph_Copy
    \/ renderThermalGraph_Plot
    \/ renderThermalGraph_End
    \/ updateFanHistory_Push
    \/ renderFanGraph_Copy
    \/ renderFanGraph_Plot
    \/ renderFanGraph_End

(* ---- the system window with any readings and any clicks *)
SysFrameCPU == \E s \in CpuSnapshots : systemWindow_CPU(s)
SysFrameFan == \E h \in FanSystems : systemWindow_Fan(getFanInfo(h))
SysFrameThermal == \E f \in ThermalFiles : systemWindow_Thermal(getThermalInfo(f))
SysRender ==
    \E click \in BOOLEAN :
       \/ renderCPUGraph_Begin(click)
       \/ renderThermalGraph_Begin(click)
       \/ renderFanGraph_Begin(click)
SysSelectTab == \E t \in Tabs : systemWindow_SelectTab(t)
SysTick ==
    /\ \E dt \in {50, 100} : Tick(dt, SysMaxNow)
    /\ UNCHANGED <<procVars, netVars, sysVars, scanVars>>

NextSys ==
    \/ SysFrameCPU
    \/ SysFrameFan
    \/ SysFrameThermal
    \/ SysRender
    \/ SysFrameSteps
    \/ SysSelectTab
    \/ SysTick

(* ---- a long run of one graph, left running: the k-th read of a source    *)
(* ---- returns the k-th entry of a fixed series of readings                *)
CpuScript(k) ==
    MkStats(7 * k + ((k * k) % 7), 0, 3 * k, 10 * k + 2 * (k % 3), k % 2, 0, 0, 0, k, 0)
ThermalScript(k) ==
    IF k % 7 = 6 THEN ThermalUnavailable
    ELSE ThermalReading(40000 + ((k * k) % 23) * 500)
FanScript(k) ==
    IF k % 11 = 10 THEN FanUnavailable
    ELSE FanReading(1000 + ((k * 37) % 101) * 10, 128, TRUE)

LongFrameCPU == systemWindow_CPU(CpuScript(cpu_reads))
LongFrameFan == systemWindow_Fan(FanScript(fan_reads))
LongFrameThermal == systemWindow_Thermal(ThermalScript(thermal_reads))
LongRender ==
    \/ renderCPUGraph_Begin(FALSE)
    \/ renderThermalGraph_Begin(FALSE)
    \/ renderFanGraph_Begin(FALSE)
LongSelectTab ==
    /\ cpu_reads + fan_reads + thermal_reads = 0
    /\ \E t \in Tabs : systemWindow_SelectTab(t)
\* the render loop draws a frame at every instant of the run
LongTick ==
    /\ sys_last_update = now
    /\ Tick(SampleIntervalMs, LongRun * SampleIntervalMs)
    /\ UNCHANGED <<procVars, netVars, sysVars, scanVars>>

NextLong ==
    \/ LongFrameCPU
    \/ LongFrameFan
    \/ LongFrameThermal
    \/ LongRender
    \/ SysFrameSteps
    \/ LongSelectTab
    \/ LongTick

InitSys ==
    /\ cpu_history = <<>>
    /\ graph_paused = FALSE
    /\ current_cpu_usage = FZero
    /\ prev_stats = ZeroStats
    /\ first_run = TRUE
    /\ cpu_mutex = Free
    /\ thermal_history = <<>>
    /\ thermal_paused = FALSE
    /\ current_temperature = FZero
    /\ thermal_available = FALSE
    /\ thermal_mutex = Free
    /\ fan_speed_history = <<>>
    /\ fan_paused = FALSE
    /\ current_fan_speed = 0
    /\ current_fan_level = 0
    /\ fan_active = FALSE
    /\ fan_available = FALSE
    /\ fan_mutex = Free
    /\ sys_last_update = NoTime
    /\ tab = "CPU"
    /\ s_pc = "idle"
    /\ s_stats = ZeroStats
    /\ plot_data = <<>>
    /\ cpu_log = <<>>
    /\ thermal_log = <<>>
    /\ fan_log = <<>>
    /\ cpu_reads = 0
    /\ cpu_pause = NoPause
    /\ thermal_reads = 0
    /\ fan_reads = 0

(* ====================================================================== *)
(* The render loop: one GUI thread runs the three windows in turn           *)
(* ====================================================================== *)
\* The GUI thread is inside at most one of systemWindow,
\* memoryProcessesWindow and networkWindow; getProcessCPUUsage is called by
\* renderProcessTable, on the GUI thread.
GuiOutsideSystem == s_pc = "idle"
GuiOutsideMemory == u_pc = "idle" /\ r_pc = "idle"
GuiOutsideNetwork == g_pc = "idle"

\* What the machine of this run offers: one process, one content of
\* /proc/net/dev, one interface, the series of sensor readings of the long
\* run; the user shows one network tab at a time, and a refresh thread has
\* ended before the next one is started.
GuiScans == {<<>>, <<MkProc(1, 3, 2)>>}
GuiNetFiles ==
    {f \in NetFiles : Len(f.lines) = 2 /\ f.lines[1].name = "lo" /\ f.lines[2].name = "eth0"}
GuiEnv ==
    /\ current_processes' \in GuiScans
    /\ r_pid' = 1
    /\ \A t \in RefreshThreads :
          /\ t_file'[t] \in GuiNetFiles \cup {NoFile}
          /\ t_networks'[t] \in {<<>>, <<"lo">>}
    /\ Len(g_todo') <= 1
    /\ Cardinality({t \in RefreshThreads : t_pc'[t] # "none"}) <= 1

\* systemWindow(...)
GuiSystemStep ==
    /\ GuiOutsideMemory
    /\ GuiOutsideNetwork
    /\ \/ LongFrameCPU
       \/ LongFrameFan
       \/ LongFrameThermal
       \/ LongRender
       \/ SysFrameSteps
       \/ LongSelectTab
    /\ GuiEnv

\* memoryProcessesWindow(...): updateProcessCPUData, then renderProcessTable
\* with updateProcessCPUData again and getProcessCPUUsage for the rows
GuiMemoryStep ==
    /\ GuiOutsideSystem
    /\ GuiOutsideNetwork
    /\ \/ /\ r_pc = "idle"
          /\ \/ updateProcessCPUData_Enter
             \/ updateProcessCPUData_Scan
             \/ updateProcessCPUData_Lock
             \/ updateProcessCPUData_Entry
             \/ updateProcessCPUData_Finish
       \/ /\ u_pc = "idle"
          /\ \/ getProcessCPUUsage_Enter
             \/ getProcessCPUUsage_Lock
             \/ getProcessCPUUsage_Return
    /\ GuiEnv

\* networkWindow(...)
GuiNetworkStep ==
    /\ GuiOutsideSystem
    /\ GuiOutsideMemory
    /\ \/ networkWindow_Begin
       \/ renderNetworkInterfaces_Header
       \/ renderNetworkInterfaces_Read
       \/ networkWindow_Tabs
       \/ renderer_Check
       \/ renderer_Lock
       \/ renderer_Draw
       \/ networkWindow_End
    /\ GuiEnv

\* the detached refresh threads run at any time
RefreshStep ==
    /\ \E t \in RefreshThreads :
          \/ parseNetworkDevFile_Lock(t)
          \/ parseNetworkDevFile_Open(t)
          \/ parseNetworkDevFile_Clear(t)
          \/ parseNetworkDevFile_Line(t)
          \/ parseNetworkDevFile_Finish(t)
          \/ getNetworkInterfaces_Collect(t)
          \/ getNetworkInterfaces_AssignBegin(t)
          \/ getNetworkInterfaces_AssignEnd(t)
    /\ GuiEnv

GuiTick ==
    /\ Tick(ProcThrottleMs \div 2, GuiMaxNow)
    /\ UNCHANGED <<procVars, netVars, sysVars, scanVars>>

NextGui == GuiSystemStep \/ GuiMemoryStep \/ GuiNetworkStep \/ RefreshStep \/ GuiTick

(* ====================================================================== *)
(* Process scan: getAllProcesses and getProcessInfo (mem.cpp)              *)
(* ====================================================================== *)
\* A string that is converted to a number is the sequence of its characters:
\* a digit is its value, and
Minus == 10     \* '-'
Letter == 11    \* a character that is no digit, no sign and no white space
NUL == 12       \* '\0', the state of a value-initialised Proc
Space == 13     \* ' '
LParen == 14    \* '('
RParen == 15    \* ')'

\* a word of n letters
Str(n) == [i \in 1..n |-> Letter]

IsDigit(c) == c \in 0..9

\* all_of(dir_name.begin(), dir_name.end(), ::isdigit)
AllDigits(s) == \A i \in 1..Len(s) : IsDigit(s[i])

\* the digits a conversion consumes: it stops at the first other character
RECURSIVE DigitPrefix(_)
DigitPrefix(s) ==
    IF s = <<>> \/ ~IsDigit(Head(s)) THEN <<>>
    ELSE <<Head(s)>> \o DigitPrefix(Tail(s))

RECURSIVE StripZeros(_)
StripZeros(d) == IF d # <<>> /\ Head(d) = 0 THEN StripZeros(Tail(d)) ELSE d

\* d > m for two digit strings of one length
RECURSIVE DigitsGreater(_, _)
DigitsGreater(d, m) ==
    IF d = <<>> THEN FALSE
    ELSE IF Head(d) # Head(m) THEN Head(d) > Head(m)
    ELSE DigitsGreater(Tail(d), Tail(m))

\* the number d spells is beyond the number m spells (no leading zeros)
Exceeds(d, m) == Len(d) > Len(m) \/ (Len(d) = Len(m) /\ DigitsGreater(d, m))

\* the number d spells, with its sign; the model's stat files keep it within
\* 32 bits
RECURSIVE DigitsValue(_, _)
DigitsValue(d, sign) ==
    IF d = <<>> THEN 0
    ELSE DigitsValue(SubSeq(d, 1, Len(d) - 1), sign) * 10 + sign * d[Len(d)]

INT_MAX_Digits == <<2, 1, 4, 7, 4, 8, 3, 6, 4, 7>>
INT_MIN_Digits == <<2, 1, 4, 7, 4, 8, 3, 6, 4, 8>>
LLONG_MAX_Digits == <<9, 2, 2, 3, 3, 7, 2, 0, 3, 6, 8, 5, 4, 7, 7, 5, 8, 0, 7>>
LLONG_MIN_Digits == <<9, 2, 2, 3, 3, 7, 2, 0, 3, 6, 8, 5, 4, 7, 7, 5, 8, 0, 8>>

Converted(v) == [ok |-> TRUE, value |-> v, what |-> "none"]
InvalidArgument == [ok |-> FALSE, value |-> 0, what |-> "invalid_argument"]
OutOfRange == [ok |-> FALSE, value |-> 0, what |-> "out_of_range"]

\* the white space a conversion and operator>> skip first
RECURSIVE SkipSpaces(_)
SkipSpaces(s) == IF s # <<>> /\ Head(s) = Space THEN SkipSpaces(Tail(s)) ELSE s

\* std::stoi / std::stoll: white space, an optional sign, then digits; std::invalid_argument
\* without a digit, std::out_of_range beyond the type, what follows the digits
\* is ignored
StrToInteger(str, max, min) ==
    LET s == SkipSpaces(str)
        neg == s # <<>> /\ Head(s) = Minus
        d == DigitPrefix(IF neg THEN Tail(s) ELSE s)
        m == StripZeros(d)
    IN  IF d = <<>> THEN InvalidArgument
        ELSE IF Exceeds(m, IF neg THEN min ELSE max) THEN OutOfRange
        ELSE Converted(DigitsValue(m, IF neg THEN -1 ELSE 1))

stoi(s) == StrToInteger(s, INT_MAX_Digits, INT_MIN_Digits)

stoll(s) == StrToInteger(s, LLONG_MAX_Digits, LLONG_MIN_Digits)

\* Proc proc = {}; proc.pid = pid;
NewProc(pid) ==
    [pid |-> pid, name |-> <<>>, state |-> NUL, vsize |-> 0, rss |-> 0,
     utime |-> 0, stime |-> 0]

\* "while (iss >> field) fields.push_back(field)": the words of s
RECURSIVE Words(_)
Words(s) ==
    LET t == SkipSpaces(s)
        n == CHOOSE k \in 0..Len(t) :
                 /\ \A i \in 1..k : t[i] # Space
                 /\ k < Len(t) => t[k + 1] = Space
    IN  IF t = <<>> THEN <<>>
        ELSE <<SubSeq(t, 1, n)>> \o Words(SubSeq(t, n + 1, Len(t)))

\* the words of a list, a space before each
RECURSIVE Unwords(_)
Unwords(ws) == IF ws = <<>> THEN <<>> ELSE <<Space>> \o Head(ws) \o Unwords(Tail(ws))

\* the first line of /proc/[pid]/stat as the kernel writes it: the pid, the
\* command name in parentheses, the fields from the state on
StatLine(pid_str, full_name, fields) ==
    pid_str \o <<Space, LParen>> \o full_name \o <<RParen>> \o Unwords(fields)

\* a line without parentheses: the empty line of a file that has nothing
NoParenLine == <<>>

\* line.find(c) and line.rfind(c), 0 for string::npos
Find(line, c) ==
    IF \E i \in 1..Len(line) : line[i] = c
    THEN CHOOSE i \in 1..Len(line) : line[i] = c /\ \A j \in 1..(i - 1) : line[j] # c
    ELSE 0

RFind(line, c) ==
    IF \E i \in 1..Len(line) : line[i] = c
    THEN CHOOSE i \in 1..Len(line) : line[i] = c /\ \A j \in (i + 1)..Len(line) : line[j] # c
    ELSE 0

\* SplitStat closing the name at the first ')'
SplitStat_FirstClose(line) ==
    LET first_paren == Find(line, LParen)
        last_paren == Find(line, RParen)
    IN  IF first_paren # 0 /\ last_paren # 0 /\ last_paren > first_paren
        THEN [paren |-> TRUE,
              pid_str |-> SubSeq(line, 1, first_paren - 1),
              full_name |-> SubSeq(line, first_paren + 1, last_paren - 1),
              fields |-> Words(SubSeq(line, last_paren + 1, Len(line)))]
        ELSE [paren |-> FALSE, pid_str |-> <<>>, full_name |-> <<>>, fields |-> <<>>]

\* lines 193-214 of getProcessInfo: the text before the first '(', the text
\* between it and the last ')', and the words after that
SplitStat(line) ==
    LET first_paren == Find(line, LParen)
        last_paren == RFind(line, RParen)
    IN  IF first_paren # 0 /\ last_paren # 0 /\ last_paren > first_paren
        THEN [paren |-> TRUE,
              pid_str |-> SubSeq(line, 1, first_paren - 1),
              full_name |-> SubSeq(line, first_paren + 1, last_paren - 1),
              fields |-> Words(SubSeq(line, last_paren + 1, Len(line)))]
        ELSE [paren |-> FALSE, pid_str |-> <<>>, full_name |-> <<>>, fields |-> <<>>]

\* the 22 fields of a stat line whose utime, stime, vsize and rss are given
StatFields(ut, st, vs, rs) ==
    [i \in 1..22 |-> IF i = 1 THEN <<Letter>>
                     ELSE IF i = 12 THEN ut
                     ELSE IF i = 13 THEN st
                     ELSE IF i = 21 THEN vs
                     ELSE IF i = 22 THEN rs
                     ELSE <<0>>]

\* an entry of /proc: its name, its d_type, whether it still exists, and the
\* content of its comm and stat files
ProcDirEntry(d_name, is_dir, comm, stat) ==
    [d_name |-> d_name, is_dir |-> is_dir, alive |-> TRUE, comm |-> comm, stat |-> stat]

\* the entries "/proc/" + to_string(pid) names, if it exists
EntriesOf(fs, pid) ==
    {i \in 1..Len(fs) : /\ fs[i].alive
                        /\ fs[i].is_dir
                        /\ fs[i].d_name # <<>>
                        /\ AllDigits(fs[i].d_name)
                        /\ stoi(fs[i].d_name).ok
                        /\ stoi(fs[i].d_name).value = pid}

\* lines 170-180 of getProcessInfo: the comm file, when it opens, gives the name
ReadComm(p, fs) ==
    IF EntriesOf(fs, p.pid) = {} THEN p
    ELSE LET i == CHOOSE x \in EntriesOf(fs, p.pid) : TRUE
         IN  [p EXCEPT !.name = fs[i].comm]

\* lines 189-227 of getProcessInfo on the line read from the stat file: the
\* Proc it leaves, or the exception a conversion throws
ParseStat(p, line) ==
    IF ~SplitStat(line).paren THEN [thrown |-> FALSE, proc |-> p]
    ELSE LET pid_c == stoi(SplitStat(line).pid_str)
             named == [p EXCEPT !.pid = pid_c.value,
                                !.name = IF p.name = <<>>
                                         THEN SplitStat(line).full_name ELSE @]
             f == SplitStat(line).fields
         IN  IF ~pid_c.ok THEN [thrown |-> TRUE, proc |-> p]
             ELSE IF Len(f) < 22 THEN [thrown |-> FALSE, proc |-> named]
             ELSE IF \E k \in {12, 13, 21, 22} : ~stoll(f[k]).ok
                  THEN [thrown |-> TRUE, proc |-> p]
             ELSE [thrown |-> FALSE,
                   proc |-> [named EXCEPT !.state = f[1][1],
                                          !.utime = stoll(f[12]).value,
                                          !.stime = stoll(f[13]).value,
                                          !.vsize = stoll(f[21]).value,
                                          !.rss = stoll(f[22]).value]]

\* lines 183-228 of getProcessInfo: the stat file, when it opens, is parsed
ReadStat(p, fs) ==
    IF EntriesOf(fs, p.pid) = {} THEN [thrown |-> FALSE, proc |-> p]
    ELSE LET i == CHOOSE x \in EntriesOf(fs, p.pid) : TRUE
         IN  ParseStat(p, fs[i].stat)

GoodStat(pid_str, name) ==
    StatLine(pid_str, name, StatFields(<<3>>, <<2>>, <<4, 0, 9, 6>>, <<1, 0>>))

\* a task as the kernel holds it: pid, command name, state and the counters
\* the scan reads
KernelTask(pid, comm, ut, st, vs, rs) ==
    [pid |-> pid, comm |-> comm, state |-> Letter, utime |-> ut, stime |-> st,
     vsize |-> vs, rss |-> rs]

\* the decimal digits the kernel prints for n >= 0
RECURSIVE ToDigits(_)
ToDigits(n) == IF n < 10 THEN <<n>> ELSE ToDigits(n \div 10) \o <<n % 10>>

\* the line the kernel writes for a task: "pid (comm) state" and the kernel
\* fields 4..52, of which 14, 15, 23 and 24 are utime, stime, vsize and rss
KernelStat(task) ==
    StatLine(ToDigits(task.pid), task.comm,
             [i \in 1..50 |-> IF i = 1 THEN <<task.state>>
                              ELSE IF i = 12 THEN ToDigits(task.utime)
                              ELSE IF i = 13 THEN ToDigits(task.stime)
                              ELSE IF i = 21 THEN ToDigits(task.vsize)
                              ELSE IF i = 22 THEN ToDigits(task.rss)
                              ELSE ToDigits(1000 + i)])

\* "my (w) a": a command name with spaces and parentheses
WeirdName == <<Letter, Letter, Space, LParen, Letter, RParen, Space, Letter>>

\* ") x 7 (": a command name that closes before it opens
NastyName == <<RParen, Space, Letter, Space, 7, Space, LParen>>

KernelTasks ==
    { KernelTask(1, Str(4), 3, 2, 4096, 10),
      KernelTask(2, WeirdName, 17, 5, 8192, 33),
      KernelTask(3, NastyName, 250, 40, 12288, 7) }

TaskOf(pid) == CHOOSE task \in KernelTasks : task.pid = pid

\* the states of /proc the scans start from
ProcFilesystems ==
    { \* three tasks; the comm file of the second reads empty
      << ProcDirEntry(<<1>>, TRUE, TaskOf(1).comm, KernelStat(TaskOf(1))),
         ProcDirEntry(<<2>>, TRUE, <<>>, KernelStat(TaskOf(2))),
         ProcDirEntry(<<3>>, TRUE, TaskOf(3).comm, KernelStat(TaskOf(3))) >>, \* two processes and a file
      << ProcDirEntry(<<1>>, TRUE, Str(4), GoodStat(<<1>>, Str(4))),
         ProcDirEntry(<<2>>, TRUE, Str(2), GoodStat(<<2>>, Str(2))),
         ProcDirEntry(<<Letter>>, FALSE, <<>>, NoParenLine) >>,
      \* a non-numeric directory, a numeric file, a stat line with 3 fields
      << ProcDirEntry(<<Letter, Letter>>, TRUE, <<>>, NoParenLine),
         ProcDirEntry(<<7>>, FALSE, <<>>, NoParenLine),
         ProcDirEntry(<<2>>, TRUE, Str(2),
                      StatLine(<<2>>, Str(2), <<<<Letter>>, <<1>>, <<1>>>>)),
         ProcDirEntry(<<1>>, TRUE, Str(4), GoodStat(<<1>>, Str(4))) >>,
      \* a stat line whose utime is no number, one whose rss is beyond 64 bits
      << ProcDirEntry(<<1>>, TRUE, Str(4),
                      StatLine(<<1>>, Str(4),
                               StatFields(<<Letter>>, <<2>>, <<0>>, <<0>>))),
         ProcDirEntry(<<2>>, TRUE, Str(2),
                      StatLine(<<2>>, Str(2),
                               StatFields(<<3>>, <<2>>, <<0>>,
                                          [i \in 1..20 |-> 9]))),
         ProcDirEntry(<<3>>, TRUE, Str(3), GoodStat(<<3>>, Str(3))) >>,
      \* a stat line with nothing before the '(', an empty comm file
      << ProcDirEntry(<<1>>, TRUE, Str(4), GoodStat(<<>>, Str(4))),
         ProcDirEntry(<<2>>, TRUE, <<>>, GoodStat(<<2>>, Str(7))),
         ProcDirEntry(<<3>>, TRUE, <<>>, NoParenLine) >>,
      \* a directory whose name spells a number beyond int
      << ProcDirEntry(<<1>>, TRUE, Str(4), GoodStat(<<1>>, Str(4))),
         ProcDirEntry(<<4, 2, 9, 4, 9, 6, 7, 2, 9, 6>>, TRUE, Str(5),
                      GoodStat(<<1>>, Str(5))),
         ProcDirEntry(<<2>>, TRUE, Str(2), GoodStat(<<2>>, Str(2))) >> }

\* the arguments of a call of getProcessInfo from outside getAllProcesses
DirectPids == {1, 2, 5}

\* getAllProcesses, lines 236-242: opendir("/proc")
getAllProcesses_Opendir ==
    /\ scan_pc = "idle"
    /\ scan_pc' = "readdir"
    /\ scan_caller' = "getAllProcesses"
    /\ dir_entries' = SelectSeq([i \in 1..Len(proc_fs) |-> i],
                                LAMBDA i : proc_fs[i].alive)
    /\ scan_listing' = dir_entries'
    /\ processes' = <<>>
    /\ scan_vanished' = {}
    /\ UNCHANGED <<now, procVars, netVars, sysVars, proc_fs, cur_proc>>

\* getAllProcesses, lines 245-254: the next entry; only a directory with an
\* all-digit name is converted, and the conversion stands outside the try block
getAllProcesses_Readdir ==
    /\ scan_pc = "readdir"
    /\ dir_entries # <<>>
    /\ LET entry == proc_fs[Head(dir_entries)]
       IN  /\ dir_entries' = Tail(dir_entries)
           /\ IF entry.is_dir /\ AllDigits(entry.d_name)
              THEN IF stoi(entry.d_name).ok
                   THEN /\ cur_proc' = NewProc(stoi(entry.d_name).value)
                        /\ scan_pc' = "comm"
                   ELSE /\ scan_pc' = "escaped"
                        /\ UNCHANGED cur_proc
              ELSE UNCHANGED <<scan_pc, cur_proc>>
    /\ UNCHANGED <<now, procVars, netVars, sysVars, proc_fs, scan_caller,
                   processes, scan_listing, scan_vanished>>

\* the listed entry getProcessInfo is reading the files of
CurrentEntry == scan_listing[Len(scan_listing) - Len(dir_entries)]

\* the entries the running call finds gone at this read
GoneNow ==
    IF scan_caller = "getAllProcesses" /\ ~proc_fs[CurrentEntry].alive
    THEN {CurrentEntry} ELSE {}

\* getProcessInfo, lines 169-180
getProcessInfo_Comm ==
    /\ scan_pc = "comm"
    /\ cur_proc' = ReadComm(cur_proc, proc_fs)
    /\ scan_vanished' = scan_vanished \cup GoneNow
    /\ scan_pc' = "stat"
    /\ UNCHANGED <<now, procVars, netVars, sysVars, proc_fs, scan_caller,
                   dir_entries, processes, scan_listing>>

\* getProcessInfo, lines 183-230, and lines 257-266 of getAllProcesses when it
\* is the caller: a Proc with a name is kept, an exception drops the entry;
\* no other caller catches
getProcessInfo_Stat ==
    /\ scan_pc = "stat"
    /\ LET r == ReadStat(cur_proc, proc_fs)
       IN  IF scan_caller = "getAllProcesses"
           THEN /\ scan_pc' = "readdir"
                /\ cur_proc' = r.proc
                /\ processes' = IF ~r.thrown /\ r.proc.name # <<>>
                                THEN Append(processes, r.proc)
                                ELSE processes
           ELSE /\ scan_pc' = IF r.thrown THEN "escaped" ELSE "returned"
                /\ cur_proc' = r.proc
                /\ UNCHANGED processes
    /\ scan_vanished' = scan_vanished \cup GoneNow
    /\ UNCHANGED <<now, procVars, netVars, sysVars, proc_fs, scan_caller,
                   dir_entries, scan_listing>>

\* getAllProcesses, lines 271-272: closedir and return
getAllProcesses_Return ==
    /\ scan_pc = "readdir"
    /\ dir_entries = <<>>
    /\ scan_pc' = "returned"
    /\ UNCHANGED <<now, procVars, netVars, sysVars, proc_fs, scan_caller,
                   dir_entries, cur_proc, processes, scan_listing, scan_vanished>>

\* getProcessInfo(pid) called by itself, lines 164-167
getProcessInfo_Call(pid) ==
    /\ scan_pc = "idle"
    /\ scan_pc' = "comm"
    /\ scan_caller' = "getProcessInfo"
    /\ cur_proc' = NewProc(pid)
    /\ UNCHANGED <<now, procVars, netVars, sysVars, proc_fs, dir_entries,
                   processes, scan_listing, scan_vanished>>

\* a process exits: its directory and the files below it are gone
ProcessExits(i) ==
    /\ proc_fs[i].alive
    /\ scan_pc \notin {"returned", "escaped"}
    /\ proc_fs' = [proc_fs EXCEPT ![i].alive = FALSE]
    /\ UNCHANGED <<now, procVars, netVars, sysVars, scan_pc, scan_caller,
                   dir_entries, cur_proc, processes, scan_listing, scan_vanished>>

ScanDirect == \E pid \in DirectPids : getProcessInfo_Call(pid)

ScanExit == \E i \in 1..Len(proc_fs) : ProcessExits(i)

NextScan ==
    \/ getAllProcesses_Opendir
    \/ getAllProcesses_Readdir
    \/ getProcessInfo_Comm
    \/ getProcessInfo_Stat
    \/ getAllProcesses_Return
    \/ ScanDirect
    \/ ScanExit

InitScan ==
    /\ scan_pc = "idle"
    /\ scan_caller = "getAllProcesses"
    /\ dir_entries = <<>>
    /\ cur_proc = NewProc(0)
    /\ processes = <<>>
    /\ scan_listing = <<>>
    /\ scan_vanished = {}

(* ---------------------------------------------------------------------- *)
(* Initial state                                                           *)
(* ---------------------------------------------------------------------- *)
InitProc ==
    /\ process_cpu_data = EmptyMap
    /\ last_process_update = 0
    /\ process_cpu_mutex = Free
    /\ u_pc = "idle"
    /\ u_call = 1
    /\ u_now = 0
    /\ current_processes = <<>>
    /\ u_i = 1
    /\ r_pc = "idle"
    /\ r_pid = 1
    /\ r_ret = FZero
    /\ published_cpu_data = EmptyMap
    /\ pass_times = <<>>

\* /proc at the start of the runs that do not scan it
BootFilesystem ==
    << ProcDirEntry(<<1>>, TRUE, Str(4), GoodStat(<<1>>, Str(4))) >>

Init ==
    /\ now = 0
    /\ InitProc
    /\ InitNet
    /\ InitSys
    /\ InitScan
    /\ proc_fs = BootFilesystem

\* steady_clock counts from an arbitrary epoch (boot): the first call of
\* updateProcessCPUData may find any reading of it
StartTimes == {0, 4000}

InitAnyStart ==
    /\ now \in StartTimes
    /\ InitProc
    /\ InitNet
    /\ InitSys
    /\ InitScan
    /\ proc_fs = BootFilesystem

InitAnyProc ==
    /\ now = 0
    /\ InitProc
    /\ InitNet
    /\ InitSys
    /\ InitScan
    /\ proc_fs \in ProcFilesystems

NextProc ==
    \/ updateProcessCPUData_Enter
    \/ updateProcessCPUData_Scan
    \/ updateProcessCPUData_Lock
    \/ updateProcessCPUData_Entry
    \/ updateProcessCPUData_Finish
    \/ getProcessCPUUsage_Enter
    \/ getProcessCPUUsage_Lock
    \/ getProcessCPUUsage_Return
    \/ ProcTick

SpecProc == InitAnyStart /\ [][NextProc]_vars

SpecNet == Init /\ [][NextNet]_vars

\* the steps a refresh thread takes by itself once it runs
RefreshRuns(t) ==
    \/ parseNetworkDevFile_Open(t)
    \/ parseNetworkDevFile_Clear(t)
    \/ parseNetworkDevFile_Line(t)
    \/ parseNetworkDevFile_Finish(t)
    \/ getNetworkInterfaces_Collect(t)
    \/ getNetworkInterfaces_AssignBegin(t)
    \/ getNetworkInterfaces_AssignEnd(t)

\* the steps of a frame of networkWindow once it has begun
FrameRuns ==
    \/ renderNetworkInterfaces_Header
    \/ renderNetworkInterfaces_Read
    \/ networkWindow_Tabs
    \/ renderer_Check
    \/ renderer_Draw
    \/ networkWindow_End

\* What the machine of the fair runs offers: /proc/net/dev missing or with
\* the lines of lo and eth0, one interface, one network tab shown at a time
NetFairEnv ==
    /\ \A t \in RefreshThreads :
          /\ t_file'[t] \in GuiNetFiles \cup {NoFile}
          /\ t_networks'[t] \in {<<>>, <<"lo">>}
    /\ Len(g_todo') <= 1

NextNetFair == NextNet /\ NetFairEnv

\* Fair scheduling: a thread that can run does run, and a thread blocked in
\* lock() gets the mutex at one of its releases
SpecNetFair ==
    /\ Init
    /\ [][NextNetFair]_vars
    /\ \A t \in RefreshThreads : WF_vars(RefreshRuns(t) /\ NetFairEnv)
    /\ \A t \in RefreshThreads : SF_vars(parseNetworkDevFile_Lock(t))
    /\ WF_vars(FrameRuns /\ NetFairEnv)
    /\ SF_vars(renderer_Lock)

SpecSys == Init /\ [][NextSys]_vars

SpecLong == Init /\ [][NextLong]_vars

SpecGui == Init /\ [][NextGui]_vars

SpecScan == InitAnyProc /\ [][NextScan]_vars

Next == NextProc \/ NextNet \/ NextSys

Spec == Init /\ [][Next]_vars

(* ====================================================================== *)
(* Properties                                                              *)
(* ====================================================================== *)

\* C1: while a renderer is inside its critical section, the two maps are the
\* complete parse of the file that the last finished parse pass read (the
\* empty maps before any pass): never the cleared or a half filled state.
C1_RendererSeesWholeParse ==
    g_pc = "draw" =>
        <<current_rx_stats, current_tx_stats>> = ParseFile(parsed_file)

\* a renderer iterates over the maps of a finished parse while a refresh
\* thread waits at the lock_guard for the next pass
C1_Witness ==
    /\ g_pc = "draw"
    /\ parsed_file.open
    /\ current_rx_stats # EmptyMap
    /\ \E t \in RefreshThreads : t_pc[t] = "enter"

\* the shared variable a refresh thread reads or writes at its position
RefreshAccess(t) ==
    IF t_pc[t] = "clear" \/ (t_pc[t] = "loop" /\ t_lines[t] # <<>>)
    THEN {[var |-> "current_rx_stats", write |-> TRUE],
          [var |-> "current_tx_stats", write |-> TRUE]}
    ELSE IF t_pc[t] = "loop"
    THEN {[var |-> "network_data_ready", write |-> TRUE]}
    ELSE IF t_pc[t] = "assigning"
    THEN {[var |-> "current_networks", write |-> TRUE]}
    ELSE {}

\* the shared variable the GUI thread reads at its position
GuiAccess ==
    IF g_pc = "netif_read"
    THEN {[var |-> "current_networks", write |-> FALSE]}
    ELSE IF g_pc = "check" /\ g_todo # <<>>
    THEN {[var |-> "network_data_ready", write |-> FALSE]}
    ELSE IF g_pc = "draw"
    THEN {[var |-> IF Head(g_todo) \in {"renderRXTable", "renderRXUsageBars"}
                   THEN "current_rx_stats" ELSE "current_tx_stats",
           write |-> FALSE]}
    ELSE {}

AccessOf(th) == IF th = GuiThread THEN GuiAccess ELSE RefreshAccess(th)

\* C2 (as claimed): no two threads are at accesses of the same shared
\* network variable, one of them a write, unless both hold network_mutex
\* (which two threads never do at once).
C2_NoConcurrentConflict ==
    \A x, y \in RefreshThreads \cup {GuiThread} :
        x # y =>
            \A a \in AccessOf(x), b \in AccessOf(y) :
                (a.var = b.var /\ (a.write \/ b.write))
                    => (network_mutex = x /\ network_mutex = y)


\* C3: a getProcessCPUUsage call that is inside its critical section sees
\* the cache exactly as the last finished recompute pass left it (or the
\* empty initial cache): never some PIDs of a scan updated and others not.
C3_ReaderSeesWholeBatch ==
    r_pc = "find" => process_cpu_data = published_cpu_data

\* a reader holds the lock over a non-empty cache while the updater waits
\* for the lock with a scan of two processes in hand
C3_Witness ==
    /\ r_pc = "find"
    /\ u_pc = "lock"
    /\ Len(current_processes) = 2
    /\ process_cpu_data # EmptyMap

\* the last n elements of a sequence
LastN(seq, n) == SubSeq(seq, Len(seq) - n + 1, Len(seq))

HistoryIsTail(history, log) ==
    /\ Len(history) <= HistoryCap
    /\ history = LastN(log, IF Len(log) < HistoryCap THEN Len(log) ELSE HistoryCap)

\* C4: each of cpu_history, thermal_history and fan_speed_history holds, in
\* the order of their insertion, the most recent min(n, 100) of the n
\* samples appended to it so far.
C4_HistoryIsLastHundred ==
    /\ HistoryIsTail(cpu_history, cpu_log)
    /\ HistoryIsTail(thermal_history, thermal_log)
    /\ HistoryIsTail(fan_speed_history, fan_log)

\* 150 samples were appended to one of the buffers, which holds the last
\* 100 of them, the 51st in front
C4_Witness ==
    \/ /\ Len(cpu_log) = 150
       /\ Len(cpu_history) = HistoryCap
       /\ cpu_history[1] = cpu_log[51]
       /\ cpu_history[1] # cpu_log[1]
    \/ /\ Len(thermal_log) = 150
       /\ Len(thermal_history) = HistoryCap
       /\ thermal_history[1] = thermal_log[51]
       /\ thermal_history[1] # thermal_log[1]
    \/ /\ Len(fan_log) = 150
       /\ Len(fan_speed_history) = HistoryCap
       /\ fan_speed_history[1] = fan_log[51]
       /\ fan_speed_history[1] # fan_log[1]

\* C5 (as claimed): in a frame where the sample of the shown metric is due
\* and the metric is paused, its history is left unchanged and its sampler
\* still runs, refreshing the current-value atomics.
C5_PausedStillRefreshes ==
    [][ /\ (SysFrameCPU /\ graph_paused /\ SampleDue)
            => (cpu_history' = cpu_history /\ cpu_reads' = cpu_reads + 1)
        /\ (SysFrameThermal /\ thermal_paused /\ SampleDue)
            => (thermal_history' = thermal_history
                /\ thermal_reads' = thermal_reads + 1)
        /\ (SysFrameFan /\ fan_paused /\ SampleDue)
            => (fan_speed_history' = fan_speed_history
                /\ fan_reads' = fan_reads + 1) ]_vars

\* C6 (as claimed): every cached cpu_percent and every value returned by
\* getProcessCPUUsage lies in [0, 100].
C6_PercentInRange ==
    /\ \A p \in DOMAIN process_cpu_data :
           InPercentRange(process_cpu_data[p].cpu_percent)
    /\ InPercentRange(r_ret)

\* C7: an unseen PID reads 0; the loop iteration that first observes a PID
\* stores 0; an iteration for a cached PID whose tick total has grown, with
\* wall time elapsed since its entry was written, stores a percent in (0, 100].
C7_BaselineThenPositive ==
    [][ /\ \A p \in Pids \ DOMAIN process_cpu_data :
              CPUUsageOf(process_cpu_data, p) = FZero
        /\ (u_pc = "loop" /\ u_i' = u_i + 1) =>
              LET proc == current_processes[u_i]
                  got == CPUUsageOf(process_cpu_data', proc.pid)
              IN  IF proc.pid \notin DOMAIN process_cpu_data
                  THEN got = FZero
                  ELSE LET e == process_cpu_data[proc.pid]
                       IN  ( /\ proc.utime + proc.stime > e.prev_utime + e.prev_stime
                             /\ u_now > e.last_update )
                           => (FLess(FZero, got) /\ FLeq(got, FHundred)) ]_vars

\* a second pass has stored a percent strictly between 0 and 100 for a PID,
\* and a reader has returned it
C7_Witness ==
    /\ Len(pass_times) >= 2
    /\ \E p \in DOMAIN process_cpu_data :
          /\ FLess(FZero, process_cpu_data[p].cpu_percent)
          /\ FLess(process_cpu_data[p].cpu_percent, FHundred)
          /\ r_ret = process_cpu_data[p].cpu_percent

PassesApart ==
    \A i \in 2..Len(pass_times) : pass_times[i] - pass_times[i - 1] >= ProcThrottleMs

C9_AbsentUntouched ==
    [][ /\ DOMAIN process_cpu_data \subseteq DOMAIN process_cpu_data'
        /\ \A p \in DOMAIN process_cpu_data :
              p \notin ScanPids(current_processes)
                 => process_cpu_data'[p] = process_cpu_data[p] ]_vars

\* a pass over a scan that lacks a cached PID has run its loop to the end,
\* and that PID still has its non-zero percent
C9_Witness ==
    /\ u_pc = "loop"
    /\ u_i > Len(current_processes)
    /\ Len(current_processes) >= 1
    /\ \E p \in DOMAIN process_cpu_data :
          /\ p \notin ScanPids(current_processes)
          /\ process_cpu_data[p].cpu_percent # FZero

\* C10: current_cpu_usage and every element of cpu_history lie in [0, 100].
C10_CpuUsageInRange ==
    /\ InPercentRange(current_cpu_usage)
    /\ \A i \in 1..Len(cpu_history) : InPercentRange(cpu_history[i])

\* the sampler met a delta above 100 % and one below 0 %: both range checks
\* of calculateCPUUsage have acted on values that reached the buffer
C10_Witness ==
    /\ Len(cpu_history) >= 2
    /\ \E i, j \in 1..Len(cpu_history) :
          \E a, b, c, d \in CpuSnapshots :
             /\ FLess(FHundred, calculateCPUUsage_NoClamp(a, b))
             /\ FLess(calculateCPUUsage_NoClamp(c, d), FZero)
             /\ cpu_history[i] = FHundred
             /\ cpu_history[j] = FZero
             /\ i # j
    /\ current_cpu_usage = cpu_history[Len(cpu_history)]

\* the sum of the eight fields user..steal of a snapshot, and its idle part
TotalTicks(st) ==
    st.user + st.nice + st.system + st.idle + st.iowait + st.irq + st.softirq + st.steal
IdleTicks(st) == st.idle + st.iowait

\* a snapshot with its two guest fields blanked
WithoutGuest(st) == [st EXCEPT !.guest = 0, !.guestNice = 0]

\* 100 * (totalDelta - idleDelta) / totalDelta, clamped to [0, 100]; 0 when
\* totalDelta = 0
UsagePercent(prev, curr) ==
    LET totalDelta == TotalTicks(curr) - TotalTicks(prev)
        idleDelta == IdleTicks(curr) - IdleTicks(prev)
    IN  IF totalDelta = 0 THEN FZero
        ELSE LET raw == Frac(100 * (totalDelta - idleDelta), totalDelta)
             IN  IF FLeq(raw, FZero) THEN FZero
                 ELSE IF FLeq(FHundred, raw) THEN FHundred
                 ELSE raw

\* C11: every call of updateCPUHistory after the first stores the percent of
\* the two snapshots it compared: 0 when the total did not change (so 0 for
\* two equal snapshots), else 100*(totalDelta - idleDelta)/totalDelta
\* clamped to [0,100], the same whatever the guest fields are, and 50 for
\* user +50 with idle +50.
C11_UsageContract ==
    [][ (cpu_reads' = cpu_reads + 1 /\ ~first_run) =>
          /\ current_cpu_usage' = UsagePercent(WithoutGuest(prev_stats),
                                               WithoutGuest(s_stats'))
          /\ (s_stats' = prev_stats => current_cpu_usage' = FZero)
          /\ (/\ s_stats'.user = prev_stats.user + 50
              /\ s_stats'.idle = prev_stats.idle + 50
              /\ \A f \in {"nice", "system", "iowait", "irq", "softirq", "steal"} :
                    s_stats'[f] = prev_stats[f])
             => current_cpu_usage' = <<50, 1>> ]_vars

\* the sampler compared a snapshot with one that has user +50, idle +50 and
\* another guestNice, and stored 50
C11_Witness ==
    /\ cpu_reads >= 2
    /\ prev_stats = MkStats(150, 0, 50, 850, 50, 0, 0, 0, 10, 5)
    /\ current_cpu_usage = <<50, 1>>
    /\ Len(cpu_history) >= 1
    /\ cpu_history[Len(cpu_history)] = <<50, 1>>

\* C12: network_data_ready is false until a parseNetworkDevFile call has
\* opened the file and run to its end (parsed_file is the file of the last
\* such call), and a renderer reads the maps only when the flag is true.
C12_ReadyOnlyAfterParse ==
    /\ network_data_ready => parsed_file.open
    /\ g_pc = "draw" => network_data_ready

\* the first renderer of a frame has returned at its test while the flag is
\* false and a first parse is filling the maps
C12_Witness ==
    /\ ~network_data_ready
    /\ g_pc = "check"
    /\ Len(g_todo) = 1
    /\ current_rx_stats # EmptyMap
    /\ \E t \in RefreshThreads : t_pc[t] = "loop"

\* a poll found its source: some candidate file gave a number
ThermalSourceFound(thermal_paths) ==
    \E i \in 1..Len(thermal_paths) : Readable(thermal_paths[i])
FanSourceFound(hwmon) ==
    /\ hwmon.exists
    /\ \E i \in 1..Len(FanSlots(hwmon.entries)) :
          Readable(FanSlots(hwmon.entries)[i].input)

\* the sensor part of C13: a thermal or fan poll leaves the flag telling
\* whether it found a source, and a poll without one returns zero values
C13_SensorFlags ==
    /\ \A f \in ThermalFiles :
          (/\ thermal_reads' = thermal_reads + 1
           /\ systemWindow_Thermal(getThermalInfo(f)))
          => /\ thermal_available' = ThermalSourceFound(f)
             /\ ~ThermalSourceFound(f) => getThermalInfo(f).temperature = FZero
    /\ \A h \in FanSystems :
          (/\ fan_reads' = fan_reads + 1
           /\ systemWindow_Fan(getFanInfo(h)))
          => /\ fan_available' = FanSourceFound(h)
             /\ ~FanSourceFound(h) =>
                   (getFanInfo(h).speed = 0 /\ getFanInfo(h).level = 0)

\* the network part of C13: the flag is false after a refresh whose open
\* of /proc/net/dev failed
C13_NetFlag ==
    \A t \in RefreshThreads :
       (t_pc[t] = "open" /\ t_pc'[t] = "ifaddrs") => ~network_data_ready'

\* C13 (as claimed): after any poll the availability flag of the metric
\* tells whether that poll found its source: thermal_available and
\* fan_available are false after a poll that found no readable sensor file,
\* and network_data_ready is false after a refresh that could not open
\* /proc/net/dev.
C13_FlagTellsLastPoll == [][C13_SensorFlags /\ C13_NetFlag]_vars

\* the sensor part alone
C13_SensorFlagsHold == [][C13_SensorFlags]_vars

\* the graph renderers of systemWindow: the plot is drawn from the copy
\* with the mutex released, and no mutex is held between frames
C14_GraphRenderers ==
    /\ s_pc \in {"plot", "idle"} =>
          /\ cpu_mutex = Free
          /\ thermal_mutex = Free
          /\ fan_mutex = Free
    /\ s_pc = "plot" =>
          plot_data = (IF tab = "CPU" THEN cpu_history
                       ELSE IF tab = "Thermal" THEN thermal_history
                       ELSE [i \in 1..Len(fan_speed_history) |->
                               <<fan_speed_history[i], 1>>])

\* C14 (as claimed): no mutex of a metric family is held by the GUI thread
\* while it makes rendering calls (the plot of a graph, the rows of a
\* network table or bar list, a row of the process table), and each is
\* free again when the renderer has returned.
C14_NoLockWhileDrawing ==
    /\ C14_GraphRenderers
    /\ g_pc = "draw" => network_mutex # GuiThread
    /\ g_pc \in {"idle", "check"} => network_mutex # GuiThread
    /\ r_pc = "idle" => process_cpu_mutex # ReaderThread

\* the mutexes a thread holds; getProcessCPUUsage runs on the GUI thread
HolderIs(m, th) ==
    IF th = GuiThread THEN m \in {GuiThread, ReaderThread} ELSE m = th
HeldBy(th) ==
    (IF HolderIs(cpu_mutex, th) THEN {"cpu_mutex"} ELSE {}) \cup
    (IF HolderIs(thermal_mutex, th) THEN {"thermal_mutex"} ELSE {}) \cup
    (IF HolderIs(fan_mutex, th) THEN {"fan_mutex"} ELSE {}) \cup
    (IF HolderIs(process_cpu_mutex, th) THEN {"process_cpu_mutex"} ELSE {}) \cup
    (IF HolderIs(network_mutex, th) THEN {"network_mutex"} ELSE {})

\* the thread is at a point where it acquires a mutex next, or (the GUI
\* thread) between two windows
AboutToLock(th) ==
    IF th = GuiThread
    THEN \/ GuiOutsideSystem /\ GuiOutsideMemory /\ GuiOutsideNetwork
         \/ s_pc \in {"render", "plot"}
         \/ u_pc = "lock"
         \/ r_pc = "lock"
         \/ g_pc = "lock"
    ELSE t_pc[th] = "enter"

\* C15: no thread holds two of the five mutexes at the same time, and a
\* thread that goes on to acquire a mutex holds none, so that no thread
\* waits for one mutex while it keeps another from the others.
C15_OneMutexPerThread ==
    \A th \in {GuiThread} \cup RefreshThreads :
       /\ Cardinality(HeldBy(th)) <= 1
       /\ AboutToLock(th) => HeldBy(th) = {}

\* the GUI thread copies the CPU history under cpu_mutex while a refresh
\* thread parses under network_mutex, after a pass of the process tracker
C15_Witness ==
    /\ s_pc = "copy"
    /\ HeldBy(GuiThread) = {"cpu_mutex"}
    /\ \E t \in RefreshThreads : t_pc[t] = "loop" /\ HeldBy(t) = {"network_mutex"}
    /\ process_cpu_data # EmptyMap

\* the GUI thread is about to read /proc itself: getAllProcesses() inside
\* updateProcessCPUData
GuiReadsKernelFiles == u_pc = "scan"

\* the GUI thread waits for network_mutex while its holder is between the
\* open of /proc/net/dev and the end of the parse
GuiWaitsForReader ==
    /\ g_pc = "lock"
    /\ \E t \in RefreshThreads :
          network_mutex = t /\ t_pc[t] \in {"open", "clear", "loop"}

\* C16 (as claimed): the GUI thread neither performs kernel file I/O in a
\* frame nor waits for a lock whose holder is performing it.
C16_GuiNeverBlocksOnIO ==
    /\ ~GuiReadsKernelFiles
    /\ ~GuiWaitsForReader

\* the second half of C16 alone
C16_GuiNeverWaitsForReader == ~GuiWaitsForReader

\* the Procs getAllProcesses returned
ReturnedProcs == {processes[k] : k \in 1..Len(processes)}

ReturnedPids == {q.pid : q \in ReturnedProcs}

ListedEntries == {scan_listing[k] : k \in 1..Len(scan_listing)}

\* a listed entry that names a process
ListedProcess(i) ==
    /\ proc_fs[i].is_dir
    /\ AllDigits(proc_fs[i].d_name)
    /\ stoi(proc_fs[i].d_name).ok

ListedPid(i) == stoi(proc_fs[i].d_name).value

\* what the two files of entry i tell about it
Described(i) ==
    ParseStat([NewProc(ListedPid(i)) EXCEPT !.name = proc_fs[i].comm],
              proc_fs[i].stat)

\* every listed process whose files were there and describe a process is in
\* the result
SurvivorsReturned ==
    \A i \in ListedEntries :
       (/\ ListedProcess(i)
        /\ i \notin scan_vanished
        /\ ~Described(i).thrown
        /\ Described(i).proc.name # <<>>) => Described(i).proc \in ReturnedProcs

ScanReturned == scan_pc = "returned" /\ scan_caller = "getAllProcesses"

\* C17 (as claimed): when getAllProcesses returns, no process whose files
\* were found gone during the scan is in the result, and every other listed
\* process is.
C17_VanishedNotInResult ==
    ScanReturned =>
       /\ \A i \in scan_vanished : ListedPid(i) \notin ReturnedPids
       /\ SurvivorsReturned

\* C18 (as claimed): no exception leaves getAllProcesses or getProcessInfo,
\* whatever the directory names and the files hold, and a malformed file
\* costs the result only its own process.
C18_NoExceptionEscapes ==
    /\ scan_pc # "escaped"
    /\ ScanReturned => SurvivorsReturned

\* the part of C18 about getAllProcesses alone
C18_ScanNeverThrows == ~(scan_pc = "escaped" /\ scan_caller = "getAllProcesses")

\* the lines of a file that leave an entry in the maps: at least 16 leading
\* integers, and no later such line of the same name
StoringLines(file) ==
    {k \in 1..Len(file.lines) :
        /\ file.lines[k].colon
        /\ Len(ParseValues(file.lines[k].tokens)) >= 16
        /\ \A j \in (k + 1)..Len(file.lines) :
              ~(/\ file.lines[j].colon
                /\ file.lines[j].name = file.lines[k].name
                /\ Len(ParseValues(file.lines[j].tokens)) >= 16)}

\* the stored int n is the integer the counter v of the input line spells
StoredIs(n, v) == n >= 0 /\ n \div Limb = v[1] /\ n % Limb = v[2]

\* no refresh thread is between the clear and the end of its parse
ParseAtRest == \A t \in RefreshThreads : t_pc[t] \notin {"clear", "loop"}

\* C19 (as claimed): once a parse has finished, every RX and TX field in the
\* maps is exactly the integer of the input line, counters of 2^31 and more
\* included.
C19_CountersStoredExactly ==
    (parsed_file.open /\ ParseAtRest) =>
        \A k \in StoringLines(parsed_file) :
            LET line == parsed_file.lines[k]
                values == ParseValues(line.tokens)
            IN  /\ line.name \in DOMAIN current_rx_stats
                /\ line.name \in DOMAIN current_tx_stats
                /\ \A i \in 1..8 :
                      /\ StoredIs(current_rx_stats[line.name][i], values[i])
                      /\ StoredIs(current_tx_stats[line.name][i], values[i + 8])

\* the second half of C19: the maps a finished parse leaves are a function
\* of the file it read, so the same input gives the same maps
C19_SameInputSameMaps ==
    [][\A t \in RefreshThreads :
          (t_pc[t] = "loop" /\ t_pc'[t] # "loop") =>
              <<current_rx_stats', current_tx_stats'>> = ParseFile(t_file[t])]_vars

\* how many integers follow the ':' of a line before its end or its first
\* token that is none
LeadingIntegers(line) ==
    CHOOSE n \in 0..Len(line.tokens) :
        /\ \A i \in 1..n : line.tokens[i] # NotANumber
        /\ n < Len(line.tokens) => line.tokens[n + 1] = NotANumber

\* thread t executes one iteration of the line loop
ReadsLine(t) ==
    /\ t_pc[t] = "loop"
    /\ t_lines[t] # <<>>
    /\ t_lines'[t] = Tail(t_lines[t])

\* the iteration stores the first 8 integers of the line as its RX entry and
\* the next 8 as its TX entry, each converted to int, and nothing else
StoresLine(line) ==
    /\ DOMAIN current_rx_stats' = DOMAIN current_rx_stats \cup {line.name}
    /\ DOMAIN current_tx_stats' = DOMAIN current_tx_stats \cup {line.name}
    /\ \A i \in 1..8 :
          /\ current_rx_stats'[line.name][i] = ToInt(line.tokens[i])
          /\ current_tx_stats'[line.name][i] = ToInt(line.tokens[i + 8])
    /\ \A x \in DOMAIN current_rx_stats \ {line.name} :
          current_rx_stats'[x] = current_rx_stats[x]
    /\ \A x \in DOMAIN current_tx_stats \ {line.name} :
          current_tx_stats'[x] = current_tx_stats[x]

AddsNothing == UNCHANGED <<current_rx_stats, current_tx_stats>>

ProcOf(task) ==
    [pid |-> task.pid, name |-> task.comm, state |-> task.state,
     vsize |-> task.vsize, rss |-> task.rss, utime |-> task.utime,
     stime |-> task.stime]

\* entry i of /proc holds the files the kernel writes for the task (its comm
\* file may read empty)
HoldsTask(i, task) ==
    /\ proc_fs[i].is_dir
    /\ proc_fs[i].d_name = ToDigits(task.pid)
    /\ proc_fs[i].stat = KernelStat(task)
    /\ proc_fs[i].comm \in {<<>>, task.comm}

DirectReturned == scan_pc = "returned" /\ scan_caller = "getProcessInfo"

\* C21: for a task whose stat line the kernel wrote, getProcessInfo recovers
\* the whole command name, spaces and parentheses included, and takes state,
\* utime, stime, vsize and rss from the kernel fields 3, 14, 15, 23 and 24,
\* called by itself or by the scan.
C21_NameAndFieldsRecovered ==
    \A i \in 1..Len(proc_fs) : \A task \in KernelTasks :
        HoldsTask(i, task) =>
            /\ (DirectReturned /\ proc_fs[i].alive /\ cur_proc.pid = task.pid)
                   => cur_proc = ProcOf(task)
            /\ (scan_caller = "getAllProcesses" /\ i \notin scan_vanished)
                   => \A q \in ReturnedProcs : q.pid = task.pid => q = ProcOf(task)

\* getProcessInfo has returned the task "my (w) a", whose comm file read
\* empty, with the name taken from between the parentheses
C21_Witness ==
    /\ DirectReturned
    /\ \E i \in 1..Len(proc_fs) :
          /\ proc_fs[i].alive
          /\ proc_fs[i].comm = <<>>
          /\ HoldsTask(i, TaskOf(2))
    /\ cur_proc = ProcOf(TaskOf(2))
    /\ cur_proc.name = WeirdName

\* the fan slot whose fanN_input is the first, in the order of the two
\* loops, to give a speed
FirstFan(hwmon) ==
    LET slots == FanSlots(hwmon.entries)
        i == CHOOSE k \in 1..Len(slots) :
                 /\ Readable(slots[k].input)
                 /\ \A j \in 1..(k - 1) : ~Readable(slots[j].input)
    IN  slots[i]

\* C22 (as claimed): a poll of the fan stores the speed of the first hwmon
\* directory and fan number whose fanN_input gives one, whatever its
\* fanN_enable and pwmN files hold: no later fan is looked at.
C22_FirstReadableFanWins ==
    [][\A h \in FanSystems :
          (/\ fan_reads' = fan_reads + 1
           /\ systemWindow_Fan(getFanInfo(h))
           /\ FanSourceFound(h))
          => current_fan_speed' = FirstFan(h).input.value]_vars

\* the same for the systems whose first fan has no fanN_enable or pwmN file
\* that fails to convert
C22_FirstFanWinsWhenFilesConvert ==
    [][\A h \in FanSystems :
          (/\ fan_reads' = fan_reads + 1
           /\ systemWindow_Fan(getFanInfo(h))
           /\ FanSourceFound(h)
           /\ ~(FirstFan(h).enable.open /\ FirstFan(h).enable.line
                /\ ~FirstFan(h).enable.numeric)
           /\ ~(FirstFan(h).pwm.open /\ FirstFan(h).pwm.line
                /\ ~FirstFan(h).pwm.numeric))
          => current_fan_speed' = FirstFan(h).input.value]_vars

\* a call of updateCPUHistory begins: it reads the counters
CpuCallBegins == cpu_reads' = cpu_reads + 1

\* a call of updateCPUHistory that took the lock ends
CpuCallEnds == tab = "CPU" /\ s_pc = "push" /\ s_pc' # "push"

\* the GUI thread is not inside updateCPUHistory
CpuCallOver == ~(tab = "CPU" /\ s_pc = "push")

\* what C23 says of the steps of a call
C23_CallSteps ==
    /\ (CpuCallBegins /\ first_run) =>
          /\ UNCHANGED <<cpu_history, cpu_log>>
          /\ current_cpu_usage' = FZero
          /\ ~first_run'
          /\ prev_stats' = s_stats'
          /\ s_pc' # "push"
    /\ (CpuCallBegins /\ ~first_run /\ ~graph_paused) =>
          /\ UNCHANGED <<cpu_history, cpu_log, prev_stats>>
          /\ s_pc' = "push"
    /\ CpuCallEnds =>
          /\ cpu_log' = Append(cpu_log, UsagePercent(WithoutGuest(prev_stats),
                                                     WithoutGuest(s_stats)))
          /\ cpu_history' # <<>>
          /\ cpu_history'[Len(cpu_history')] = cpu_log'[Len(cpu_log')]
          /\ prev_stats' = s_stats
    /\ (CpuCallOver /\ CpuCallOver' /\ ~CpuCallBegins) => UNCHANGED <<cpu_log, prev_stats>>

\* between calls the baseline is the snapshot of the last call, and the
\* samples appended are one for every call but the first
C23_OneSamplePerLaterCall ==
    (CpuCallOver /\ cpu_reads >= 1) =>
        /\ prev_stats = s_stats
        /\ Len(cpu_log) = cpu_reads - 1

\* C23: the first call of updateCPUHistory only records its snapshot as the
\* baseline, appends nothing and leaves current_cpu_usage at 0; every later
\* call made while not paused appends exactly one sample, the usage between
\* the snapshot of the call before and its own, and leaves its own snapshot
\* as the baseline of the next.
C23_FirstCallIsBaseline == [][C23_CallSteps]_vars /\ []C23_OneSamplePerLaterCall

\* three calls have ended: the first left no sample, the other two one each,
\* of different value
C23_Witness ==
    /\ CpuCallOver
    /\ cpu_reads = 3
    /\ Len(cpu_log) = 2
    /\ cpu_log[1] # cpu_log[2]
    /\ prev_stats = s_stats
    /\ cpu_log[2] # FZero

\* thread t is inside the critical section of parseNetworkDevFile
InParse(t) == t_pc[t] \in {"open", "clear", "loop"}

CpuSamplerRuns == cpu_reads' # cpu_reads
FanSamplerRuns == fan_reads' # fan_reads
ThermalSamplerRuns == thermal_reads' # thermal_reads

\* C25: the three samplers are gated by the one last_update of systemWindow:
\* a sampler is called only as the first step of a frame, when the shared
\* interval has elapsed, its tab is the selected one and its pause flag is
\* false; no step calls two samplers, the tab does not change within a
\* frame, and the history of a tab that is not shown does not change.
C25_OneSamplerPerFrame ==
    [][ /\ CpuSamplerRuns =>
              /\ s_pc = "idle" /\ tab = "CPU" /\ ~graph_paused /\ SampleDue
              /\ ~FanSamplerRuns /\ ~ThermalSamplerRuns
        /\ FanSamplerRuns =>
              /\ s_pc = "idle" /\ tab = "Fan" /\ ~fan_paused /\ SampleDue
              /\ ~CpuSamplerRuns /\ ~ThermalSamplerRuns
        /\ ThermalSamplerRuns =>
              /\ s_pc = "idle" /\ tab = "Thermal" /\ ~thermal_paused /\ SampleDue
              /\ ~CpuSamplerRuns /\ ~FanSamplerRuns
        /\ s_pc # "idle" => tab' = tab
        /\ tab # "CPU" => cpu_history' = cpu_history
        /\ tab # "Fan" => fan_speed_history' = fan_speed_history
        /\ tab # "Thermal" => thermal_history' = thermal_history ]_vars

\* the Thermal tab is shown and has been sampled after the CPU tab was, the
\* CPU tab is paused and the fan has never been shown
C25_Witness ==
    /\ tab = "Thermal"
    /\ thermal_history # <<>>
    /\ cpu_history # <<>>
    /\ graph_paused
    /\ fan_reads = 0
    /\ SampleDue

\* "sensor reported unavailable and polling stopped"
ThermalStuckUnavailable == thermal_paused /\ ~thermal_available
FanStuckUnavailable == fan_paused /\ ~fan_available

\* C26: in every reachable state a paused thermal or fan graph has its
\* sensor reported available, and while a graph is paused no step polls
\* its sensor or changes the reported availability.
C26_PausedImpliesAvailable ==
    /\ [](~ThermalStuckUnavailable /\ ~FanStuckUnavailable)
    /\ [][ /\ thermal_paused =>
                  (thermal_available' = thermal_available /\ ~ThermalSamplerRuns)
           /\ fan_paused =>
                  (fan_available' = fan_available /\ ~FanSamplerRuns) ]_vars

\* both graphs are paused after their sensors had been polled, and a frame
\* of the Fan tab begins with the sample due
C26_Witness ==
    /\ thermal_paused /\ thermal_reads > 0
    /\ fan_paused /\ fan_reads > 0
    /\ tab = "Fan" /\ s_pc = "idle" /\ SampleDue

\* the loop is at a process whose PID has a cache entry
AtExistingEntry ==
    /\ u_pc = "loop"
    /\ u_i <= Len(current_processes)
    /\ current_processes[u_i].pid \in DOMAIN process_cpu_data

\* "now - it->second.last_update" of the iteration at hand, in ms
ElapsedOfEntry == u_now - process_cpu_data[current_processes[u_i].pid].last_update

InCriticalSection == {t \in RefreshThreads : InParse(t)}

\* the file of the most recently performed read: the one the thread inside
\* the critical section has opened, else the one of the last finished parse
LatestRead ==
    IF \E t \in RefreshThreads : t_pc[t] \in {"clear", "loop"}
    THEN t_file[CHOOSE t \in RefreshThreads : t_pc[t] \in {"clear", "loop"}]
    ELSE parsed_file

\* the lines of the latest read that its parse has gone through so far
LinesDone ==
    IF \E t \in RefreshThreads : t_pc[t] = "loop"
    THEN LET t == CHOOSE u \in RefreshThreads : t_pc[u] = "loop"
         IN  SubSeq(t_file[t].lines, 1, Len(t_file[t].lines) - Len(t_lines[t]))
    ELSE LatestRead.lines

\* C28: at most one refresh thread is inside the critical section of
\* parseNetworkDevFile, it holds network_mutex and no renderer draws
\* meanwhile; once a first file has been read the maps hold what the parse
\* makes of the most recently performed read (of its lines gone through so
\* far while that parse runs, the old content until its clear), so the maps
\* never hold the content of an older read after a newer one.
C28_LatestReadWins ==
    /\ Cardinality(InCriticalSection) <= 1
    /\ \A t \in InCriticalSection : network_mutex = t /\ g_pc # "draw"
    /\ (\E t \in RefreshThreads : t_pc[t] = "clear") =>
           (parsed_file.open =>
                <<current_rx_stats, current_tx_stats>> = ParseFile(parsed_file))
    /\ ((\A t \in RefreshThreads : t_pc[t] # "clear") /\ LatestRead.open) =>
           <<current_rx_stats, current_tx_stats>>
               = ParseLines(<<EmptyMap, EmptyMap>>, LinesDone)

\* two refresh threads are alive: one has finished the older read and is
\* still in getNetworkInterfaces, the other is in the middle of a newer
\* read of different content, of which the maps hold a part
C28_Witness ==
    \E t, u \in RefreshThreads :
        /\ t # u
        /\ t_pc[t] = "loop" /\ t_lines[t] # <<>>
        /\ current_rx_stats # EmptyMap
        /\ t_pc[u] \notin {"none", "enter", "open", "clear", "loop"}
        /\ t_file[u] = parsed_file
        /\ parsed_file.open /\ parsed_file # t_file[t]

\* the interface names of the lines of a file that carried at least 16
\* integers
StoredNames(file) ==
    {file.lines[k].name : k \in {j \in 1..Len(file.lines) :
                                    /\ file.lines[j].colon
                                    /\ LeadingIntegers(file.lines[j]) >= 16}}

\* every interface name a file has a line for
ListedNames(file) ==
    {file.lines[k].name : k \in {j \in 1..Len(file.lines) : file.lines[j].colon}}

\* thread t returns from parseNetworkDevFile because the file did not open
FailedOpen(t) == t_pc[t] = "open" /\ t_pc'[t] = "ifaddrs"

BaselineWritten == prev_stats' # prev_stats

\* the GUI thread is inside updateCPUHistory in this step
InCpuCall == CpuCallBegins \/ CpuCallEnds

\* the sample appended by this step is the first one since a Resume click,
\* and a baseline had been taken before the Pause click
FirstSampleAfterResume ==
    /\ CpuCallEnds
    /\ cpu_pause.state = "resumed"
    /\ cpu_pause.had

\* C30: only a step of updateCPUHistory writes the baseline snapshot and no
\* such step is taken while graph_paused is true; the first sample appended
\* after a Resume is the usage between the baseline the Pause click found
\* (the snapshot of the last call before the pause) and the snapshot of the
\* first call after the Resume.
C30_BaselineSurvivesPause ==
    [][ /\ BaselineWritten => InCpuCall
        /\ graph_paused => (~InCpuCall /\ ~BaselineWritten)
        /\ FirstSampleAfterResume =>
              /\ prev_stats = cpu_pause.stats
              /\ cpu_log' = Append(cpu_log, calculateCPUUsage(cpu_pause.stats, s_stats))
              /\ prev_stats' = s_stats ]_vars

\* the first sample after a Resume has been appended, the pause had lasted
\* past a sampling interval and the snapshot after it differed from the
\* baseline before it
C30_Witness ==
    /\ cpu_pause.state = "sampled"
    /\ cpu_pause.had
    /\ cpu_pause.stats # prev_stats
    /\ tab = "CPU" /\ s_pc = "render"
    /\ now >= 3 * SampleIntervalMs
    /\ Len(cpu_log) = 1

====
